---- MODULE Spec2Model ----
(***************************************************************************)
(* A model of the tank arena: the mobile unit (Tank.move, Tank.shoot,      *)
(* Tank.take_hit), the projectile (Bullet.update), the orientation helper  *)
(* and the obstacle placement of arena setup.                              *)
(*                                                                         *)
(* Numbers.  Rect coordinates are the integers of pygame.Rect.  The float  *)
(* position of a sprite, the displacement of a move, the push-apart vector *)
(* and the decision timer of the controller are IEEE-754 doubles, computed *)
(* operation by operation as the program computes them.  The clock and the *)
(* tick length are whole milliseconds, as pygame reports them; dt is the   *)
(* double tick / 1000.0.                                                   *)
(***************************************************************************)
EXTENDS Integers, Sequences, FiniteSets, TLC

VARIABLES
    unit,          \* the unit under test: position, rect centre, facing, health, reload state
    blockers,      \* the blocker set handed to move: [given, items]
    bullets,       \* the projectile collection (a sequence, in creation order)
    last,          \* the last call made: its name, its inputs, the state before it
    calls,         \* number of calls made so far (bounded)
    expired,       \* projectiles removed by Bullet.update, as they were when removed
    obstacles,     \* arena setup: centres of the obstacles placed so far
    attempts,      \* arena setup: sampling attempts made so far
    vec,           \* orientation helper: the direction vector under test
    facing,        \* orientation helper: the last result, "none" before the first call
    shotLog,       \* the clock values of the shoot calls made so far, in order
    heading,       \* the direction a unit keeps moving in when driven into an obstacle
    built,         \* the unit as its constructor left it
    wanted,        \* arena setup: the number of obstacles asked for
    player,        \* the game: the player's unit
    enemy,         \* the game: the unit the controller drives
    ctl,           \* the controller: its direction and its decision timer (s)
    player_bullets,\* the game: the player's projectiles
    enemy_bullets, \* the game: the enemy's projectiles
    state,         \* the game: "playing", "victory" or "defeat"
    clock,         \* pygame.time.get_ticks() at the last tick (ms)
    fired,         \* the clock values at which each unit created a projectile
    tanks,         \* the game: the group of the units in play, in the order of the group
    running        \* the game: TankGame.running, the condition of the run loop

gameVars == <<player, enemy, ctl, player_bullets, enemy_bullets, state, clock, fired, tanks,
              running>>

vars == <<unit, blockers, bullets, last, calls, expired, obstacles, attempts, vec, facing,
          shotLog, heading, built, wanted, gameVars>>

----------------------------------------------------------------------------
(* Program constants *)

PIXEL_SIZE == 4
TankPatternCols == 13
TankPatternRows == 14
BulletPatternSize == 5
ObstaclePatternCols == 25
ObstaclePatternRows == 8

DEFAULT_TANK_HEALTH == 4
DEFAULT_TANK_RELOAD_MS == 450
PLAYER_TANK_SPEED == 140
ENEMY_TANK_SPEED == 110
BULLET_SPEED == 360
DEFAULT_OBSTACLES == 6
OBSTACLE_SAFE_RADIUS == 80
OBSTACLE_MIN_DISTANCE == 100
COLLISION_PUSH_DISTANCE == 2
TANK_COLLISION_THRESHOLD == 35
PLAYER_SPAWN_OFFSET_X == 70
PLAYER_SPAWN_OFFSET_Y == 70
ENEMY_SPAWN_OFFSET_X == 70
ENEMY_SPAWN_OFFSET_Y == 70
SpawnInset == 100
MaxAttempts == 1000
ClearProbeSize == 32

WindowW == 640
WindowH == 480
FieldMargin == 48

MsPerSecond == 1000

\* TankGame.__init__: playfield = Rect(48, 48, W - 96, H - 96)
Playfield == [left |-> FieldMargin, top |-> FieldMargin,
              right |-> FieldMargin + (WindowW - 2 * FieldMargin),
              bottom |-> FieldMargin + (WindowH - 2 * FieldMargin)]

\* half extents of the sprites' rects (create_pixel_surface: cols * pixel_size wide).
\* A unit's rect is built once from the "up" image and never resized.
TankHalfW == (TankPatternCols * PIXEL_SIZE) \div 2
TankHalfH == (TankPatternRows * PIXEL_SIZE) \div 2
BulletHalf == (BulletPatternSize * PIXEL_SIZE) \div 2
ObstacleHalfW == (ObstaclePatternCols * PIXEL_SIZE) \div 2
ObstacleHalfH == (ObstaclePatternRows * PIXEL_SIZE) \div 2

PlayerSpawn == <<Playfield.left + PLAYER_SPAWN_OFFSET_X,
                 Playfield.bottom - PLAYER_SPAWN_OFFSET_Y>>
EnemySpawn == <<Playfield.right - ENEMY_SPAWN_OFFSET_X,
                Playfield.top + ENEMY_SPAWN_OFFSET_Y>>

----------------------------------------------------------------------------
(* Arithmetic *)

Abs(n) == IF n < 0 THEN -n ELSE n
Sign(n) == IF n > 0 THEN 1 ELSE IF n < 0 THEN -1 ELSE 0

\* F(v) and F(v, w), the operands computed once, before F is applied
Bind(v, F(_)) == CHOOSE r \in {F(x) : x \in {v}} : TRUE
Bind2(v, w, F(_, _)) == CHOOSE r \in {F(x, y) : x \in {v}, y \in {w}} : TRUE

\* Floats.  A Python float is an IEEE-754 double: zero, or s * m * 2^e with
\* s the sign (1 or -1) and m a mantissa of exactly MantissaBits bits.  The
\* mantissa is a natural number written in limbs of LimbBits bits, the least
\* significant first and the most significant not zero, so that every
\* intermediate value fits the integers of the model checker.  Each operation
\* rounds its exact result to the nearest double, ties to the even mantissa.
LimbBits == 14
LimbBase == 2 ^ LimbBits
MantissaBits == 53
MantissaLimbs == (MantissaBits + LimbBits - 1) \div LimbBits
QuotientDigits == MantissaLimbs
QuotientBits == QuotientDigits * LimbBits

At(xs, i) == IF 1 <= i /\ i <= Len(xs) THEN xs[i] ELSE 0

\* the limbs xs, each computed once
Listed(xs) == Bind(xs, LAMBDA t : SubSeq(t, 1, Len(t)))

\* xs without its most significant zero limbs
Trim(xs) ==
    Bind(Listed(xs), LAMBDA t :
        Bind({i \in 1..Len(t) : t[i] /= 0}, LAMBDA used :
            IF used = {} THEN <<>>
            ELSE SubSeq(t, 1, CHOOSE i \in used : \A j \in used : j <= i)))

Longer(a, b) == IF Len(a) > Len(b) THEN Len(a) ELSE Len(b)

\* limbs from 0 to 2 * LimbBase - 2: a limb takes a carry when a limb below
\* it overflows and every limb between the two is full
CarryInto(xs, i) ==
    \E j \in 1..(i - 1) :
        xs[j] >= LimbBase /\ \A l \in (j + 1)..(i - 1) : xs[l] = LimbBase - 1
Carried(xs) ==
    Bind(Listed(xs), LAMBDA t :
        Trim([i \in 1..(Len(t) + 1) |->
                (At(t, i) + (IF CarryInto(t, i) THEN 1 ELSE 0)) % LimbBase]))

\* limbs from 1 - LimbBase to LimbBase - 1 of a number that is not negative:
\* a limb lends when a limb below it is negative and every limb between is zero
BorrowFrom(xs, i) ==
    \E j \in 1..(i - 1) : xs[j] < 0 /\ \A l \in (j + 1)..(i - 1) : xs[l] = 0
Borrowed(xs) ==
    Bind(Listed(xs), LAMBDA t :
        Trim([i \in 1..Len(t) |-> (t[i] - (IF BorrowFrom(t, i) THEN 1 ELSE 0)) % LimbBase]))

BigAdd(a, b) ==
    IF a = <<>> THEN b
    ELSE IF b = <<>> THEN a
    ELSE Carried([i \in 1..Longer(a, b) |-> At(a, i) + At(b, i)])
\* a - b for a >= b
BigSub(a, b) ==
    IF a = <<>> \/ b = <<>> THEN a
    ELSE Borrowed([i \in 1..Longer(a, b) |-> At(a, i) - At(b, i)])

\* -1, 0, 1 as a is below, equal to, above b
BigCmp(a, b) ==
    IF a = b THEN 0
    ELSE Bind({i \in 1..Longer(a, b) : At(a, i) /= At(b, i)}, LAMBDA differ :
         Bind(CHOOSE i \in differ : \A j \in differ : j <= i, LAMBDA top :
              Sign(At(a, top) - At(b, top))))

\* the product of two numbers of at most MantissaLimbs limbs: the column
\* sums, then their overflow passed up twice, then the last carries
Column(a, b, k) ==
    At(a, 1) * At(b, k) + At(a, 2) * At(b, k - 1)
        + At(a, 3) * At(b, k - 2) + At(a, 4) * At(b, k - 3)
PassUp(xs) ==
    Bind(Listed(xs), LAMBDA t :
        [i \in 1..(Len(t) + 1) |-> (At(t, i) % LimbBase) + (At(t, i - 1) \div LimbBase)])
BigMul(a, b) ==
    IF a = <<>> \/ b = <<>> THEN <<>>
    ELSE Carried(PassUp(PassUp([k \in 1..(2 * MantissaLimbs) |-> Column(a, b, k)])))

\* the number of bits of a natural number below 2^31
IntBits(n) == Cardinality({k \in 0..30 : 2 ^ k <= n})
BitLen(a) == IF a = <<>> THEN 0 ELSE LimbBits * (Len(a) - 1) + IntBits(a[Len(a)])

\* a * 2^k
Shl(a, k) ==
    IF a = <<>> \/ k = 0 THEN a
    ELSE LET w == k \div LimbBits
             f == 2 ^ (k % LimbBits)
         IN  Trim([i \in 1..(Len(a) + w + 1) |->
                     ((At(a, i - w) * f) % LimbBase)
                         + ((At(a, i - w - 1) * f) \div LimbBase)])

\* a \div 2^k
Shr(a, k) ==
    IF a = <<>> \/ k = 0 THEN a
    ELSE LET w == k \div LimbBits
             r == k % LimbBits
             f == 2 ^ r
             g == 2 ^ (LimbBits - r)
         IN  IF w >= Len(a) THEN <<>>
             ELSE Trim([i \in 1..(Len(a) - w) |->
                          (a[i + w] \div f) + (At(a, i + w + 1) % f) * g])

\* bit k of a (bit 0 the least significant)
Bit(a, k) == (At(a, k \div LimbBits + 1) \div (2 ^ (k % LimbBits))) % 2
\* some bit of a below bit k is set
AnyBelow(a, k) ==
    \/ \E i \in 1..(k \div LimbBits) : At(a, i) /= 0
    \/ At(a, k \div LimbBits + 1) % (2 ^ (k % LimbBits)) /= 0

\* a natural number below 2^31 in limbs, and back
BigOfInt(n) == Trim(<<n % LimbBase, (n \div LimbBase) % LimbBase, n \div (LimbBase * LimbBase)>>)
IntOfBig(a) ==
    Bind(a, LAMBDA t : At(t, 1) + LimbBase * At(t, 2) + LimbBase * LimbBase * At(t, 3))

Zero == [s |-> 0, m |-> <<>>, e |-> 0]

\* the double nearest to s * M * 2^e (ties to even); inexact says that the
\* exact value lies strictly above M * 2^e (and below (M + 1) * 2^e)
Nearest(s, M, e, inexact) ==
    Bind2(M, e, LAMBDA whole, scale :
        IF whole = <<>> THEN Zero
        ELSE Bind(BitLen(whole), LAMBDA n :
            IF n <= MantissaBits
            THEN [s |-> s, m |-> Shl(whole, MantissaBits - n),
                  e |-> scale - (MantissaBits - n)]
            ELSE Bind2(n - MantissaBits, Shr(whole, n - MantissaBits), LAMBDA k, q :
                 Bind(IF /\ Bit(whole, k - 1) = 1
                         /\ (inexact \/ AnyBelow(whole, k - 1) \/ q[1] % 2 = 1)
                      THEN BigAdd(q, <<1>>) ELSE q, LAMBDA q1 :
                     IF BitLen(q1) > MantissaBits
                     THEN [s |-> s, m |-> Shr(q1, 1), e |-> scale + k + 1]
                     ELSE [s |-> s, m |-> q1, e |-> scale + k]))))

FloatOfInt(v) ==
    Bind(v, LAMBDA n : IF n = 0 THEN Zero ELSE Nearest(Sign(n), BigOfInt(Abs(n)), 0, FALSE))

FloatNeg(a) == Bind(a, LAMBDA x : [x EXCEPT !.s = -x.s])
FloatAbs(a) == Bind(a, LAMBDA x : [x EXCEPT !.s = Abs(x.s)])

\* -1, 0, 1 as |a| is below, equal to, above |b|
CmpAbs(a, b) ==
    IF a.s = 0 \/ b.s = 0 THEN Abs(a.s) - Abs(b.s)
    ELSE IF a.e /= b.e THEN Sign(a.e - b.e)
    ELSE BigCmp(a.m, b.m)
FloatCmp(a, b) ==
    Bind2(a, b, LAMBDA x, y :
        IF x.s /= y.s THEN Sign(x.s - y.s)
        ELSE x.s * CmpAbs(x, y))

FloatAdd(a, b) ==
    Bind2(a, b, LAMBDA x, y :
        IF x.s = 0 THEN y
        ELSE IF y.s = 0 THEN x
        ELSE LET hi == IF x.e >= y.e THEN x ELSE y
                 lo == IF x.e >= y.e THEN y ELSE x
             IN  IF hi.e - lo.e > MantissaBits + 2 THEN hi
                 ELSE Bind(Shl(hi.m, hi.e - lo.e), LAMBDA H :
                      Bind(BigCmp(H, lo.m), LAMBDA c :
                          IF hi.s = lo.s THEN Nearest(hi.s, BigAdd(H, lo.m), lo.e, FALSE)
                          ELSE IF c = 0 THEN Zero
                          ELSE IF c > 0 THEN Nearest(hi.s, BigSub(H, lo.m), lo.e, FALSE)
                          ELSE Nearest(lo.s, BigSub(lo.m, H), lo.e, FALSE))))
FloatSub(a, b) == FloatAdd(a, FloatNeg(b))

FloatMul(a, b) ==
    Bind2(a, b, LAMBDA x, y :
        IF x.s = 0 \/ y.s = 0 THEN Zero
        ELSE Nearest(x.s * y.s, BigMul(x.m, y.m), x.e + y.e, FALSE))

\* a * c for a digit c from 0 to LimbBase
Scaled(a, c) ==
    IF a = <<>> \/ c = 0 THEN <<>>
    ELSE Carried(PassUp([i \in 1..Len(a) |-> a[i] * c]))
\* a \div 2^k, a number below 2^31
HighPart(a, k) == IntOfBig(Shr(a, k))

\* long division in base LimbBase, one digit: R * LimbBase by D for R < D and
\* D of MantissaBits bits, as <<remainder, digit>>.  The digit guessed from
\* the leading bits is the digit or one less.
EstimateBits == 17
DivStep(R, D) ==
    IF R = <<>> THEN <<R, 0>>
    ELSE Bind(Shl(R, LimbBits), LAMBDA R1 :
         Bind(HighPart(R1, MantissaBits - EstimateBits)
                  \div (HighPart(D, MantissaBits - EstimateBits) + 1), LAMBDA guess :
         Bind(Scaled(D, guess), LAMBDA taken :
         Bind(BigSub(R1, taken), LAMBDA left :
             IF BigCmp(left, D) >= 0 THEN <<BigSub(left, D), guess + 1>>
             ELSE <<left, guess>>))))

\* n more digits of R / D appended to the quotient Q, as <<remainder, quotient>>
RECURSIVE DivDigits(_, _, _, _)
DivDigits(R, D, Q, n) ==
    IF R = <<>> \/ n = 0
    THEN Bind(Trim(Q), LAMBDA digits : <<R, Shl(digits, n * LimbBits)>>)
    ELSE Bind(DivStep(R, D), LAMBDA step :
             DivDigits(step[1], D, <<step[2]>> \o Q, n - 1))

\* a / b for b not zero: the integer quotient of the mantissas to QuotientBits
\* binary places, and whether a remainder is left
FloatDiv(a, b) ==
    Bind2(a, b, LAMBDA x, y :
        IF x.s * y.s = 0 THEN Zero
        ELSE Bind(BigCmp(x.m, y.m) >= 0, LAMBDA first :
             Bind(IF first THEN BigSub(x.m, y.m) ELSE x.m, LAMBDA R :
             Bind(DivDigits(R, y.m, IF first THEN <<1>> ELSE <<>>, QuotientDigits),
                  LAMBDA rq :
                 Nearest(x.s * y.s, rq[2], x.e - y.e - QuotientBits, rq[1] /= <<>>)))))

MaxIntRoot == 46340
\* bisection, n steps of it, the first half of them and then the rest: the
\* largest r in lo..hi with r * r <= v, as <<r, r>> once lo and hi have met
RECURSIVE Bisect(_, _, _, _)
Bisect(v, lo, hi, n) ==
    IF lo = hi THEN <<lo, hi>>
    ELSE IF n = 1
    THEN LET mid == (lo + hi + 1) \div 2
         IN  IF mid * mid <= v THEN <<mid, hi>> ELSE <<lo, mid - 1>>
    ELSE Bind(Bisect(v, lo, hi, n \div 2), LAMBDA half :
             Bisect(v, half[1], half[2], n - n \div 2))
BisectSteps == 16
IntSqrt(v) == Bisect(v, 0, MaxIntRoot, BisectSteps)[1]

\* digit-by-digit square root in base LimbBase, one digit: with rem the
\* remainder left by root (of 15 bits or more), the largest digit d with
\* (2 * root * LimbBase + d) * d <= rem * LimbBase^2, as <<remainder, root>>.
\* The digit guessed from the leading bits is within one of it.
SqrtStep(rem, root) ==
    IF rem = <<>> THEN <<rem, <<0>> \o root>>
    ELSE Bind2(Shl(rem, 2 * LimbBits), Shl(root, LimbBits + 1), LAMBDA rem1, twice :
         Bind(BitLen(twice) - EstimateBits, LAMBDA shift :
         Bind(HighPart(rem1, shift) \div (HighPart(twice, shift) + 1), LAMBDA guess :
             LET Taken(c) == Bind(BigAdd(twice, <<c>>), LAMBDA sum : Scaled(sum, c))
                 Fits(c) == Bind(Taken(c), LAMBDA taken : BigCmp(taken, rem1) <= 0)
             IN  Bind(IF Fits(guess + 1) THEN guess + 1
                      ELSE IF Fits(guess) THEN guess ELSE guess - 1, LAMBDA digit :
                 Bind(Taken(digit), LAMBDA taken :
                     <<BigSub(rem1, taken), <<digit>> \o root>>)))))

RECURSIVE SqrtDigits(_, _, _)
SqrtDigits(rem, root, n) ==
    IF rem = <<>> \/ n = 0 THEN <<rem, Shl(root, n * LimbBits)>>
    ELSE Bind(SqrtStep(rem, root), LAMBDA step :
             SqrtDigits(step[1], step[2], n - 1))

\* the square root of a natural number n below 2^31, as a double: the integer
\* root of n * 4^places, n scaled to 30 bits or 31, then RootDigits digits
IntWidth == 31
RootDigits == 3
FloatSqrtOfInt(v) ==
    Bind(v, LAMBDA n :
        IF n = 0 THEN Zero
        ELSE Bind((IntWidth - IntBits(n)) \div 2, LAMBDA places :
             Bind(n * 4 ^ places, LAMBDA scaled :
             Bind(IntSqrt(scaled), LAMBDA r :
             Bind(SqrtDigits(BigOfInt(scaled - r * r), BigOfInt(r), RootDigits),
                  LAMBDA rr :
                 Nearest(1, rr[2], -(places + RootDigits * LimbBits), rr[1] /= <<>>))))))

\* Python's round(): nearest integer, ties to even
PyRound(a) ==
    Bind(a, LAMBDA x :
        IF x.s = 0 THEN 0
        ELSE IF x.e >= 0 THEN x.s * IntOfBig(Shl(x.m, x.e))
        ELSE Bind2(-x.e, IntOfBig(Shr(x.m, -x.e)), LAMBDA k, q :
             LET up == /\ k <= MantissaBits + 1
                       /\ Bit(x.m, k - 1) = 1
                       /\ (AnyBelow(x.m, k - 1) \/ q % 2 = 1)
             IN  x.s * (IF up THEN q + 1 ELSE q)))

\* Tabulation.  A conversion or a product is the same at every call with the
\* same arguments; for the tick lengths, the directions and the speeds that the
\* specifications draw it is computed once and looked up afterwards.
TabulatedMs == {-33, -16, 0, 16, 17, 33, 100, 200, 350, 400, 450, 900}
TabulatedDirections == {<<d, other>> : d \in -2..2, other \in -2..2}
TabulatedSteps ==
    {<<<<d, other>>, speed, ms>> : d \in -1..1, other \in -1..1,
         speed \in {PLAYER_TANK_SPEED, ENEMY_TANK_SPEED}, ms \in TabulatedMs}
TabulatedFlights == {<<d, speed, ms>> : d \in -1..1, speed \in {BULLET_SPEED}, ms \in TabulatedMs}

\* ms / 1000.0
SecondsOf(ms) == FloatDiv(FloatOfInt(ms), FloatOfInt(MsPerSecond))
SecondsTable == [ms \in TabulatedMs |-> SecondsOf(ms)]

\* clock.tick(60) / 1000.0, and the seconds random.uniform draws: milliseconds
\* as a float
Seconds(ms) == IF ms \in TabulatedMs THEN SecondsTable[ms] ELSE SecondsOf(ms)

----------------------------------------------------------------------------
(* Rects.  A rect is [cx, cy, hw, hh]: centre and half extents (all the    *)
(* sprites have even sizes, so the centre is exact).                       *)

RectOf(cx, cy, hw, hh) == [cx |-> cx, cy |-> cy, hw |-> hw, hh |-> hh]
Left(r) == r.cx - r.hw
Right(r) == r.cx + r.hw
Top(r) == r.cy - r.hh
Bottom(r) == r.cy + r.hh

\* pygame.Rect.colliderect: strict overlap, touching edges do not collide
CollideRect(a, b) ==
    /\ Left(a) < Right(b) /\ Left(b) < Right(a)
    /\ Top(a) < Bottom(b) /\ Top(b) < Bottom(a)

\* pygame.Rect.contains(inner) for the playfield
FieldContains(r) ==
    /\ Playfield.left <= Left(r) /\ Right(r) <= Playfield.right
    /\ Playfield.top <= Top(r) /\ Bottom(r) <= Playfield.bottom

\* playfield.colliderect(r)
FieldCollides(r) ==
    /\ Left(r) < Playfield.right /\ Playfield.left < Right(r)
    /\ Top(r) < Playfield.bottom /\ Playfield.top < Bottom(r)

\* pygame.Rect.clamp_ip(playfield) for a rect smaller than the playfield
ClampX(r) ==
    IF Left(r) < Playfield.left THEN Playfield.left + r.hw
    ELSE IF Right(r) > Playfield.right THEN Playfield.right - r.hw
    ELSE r.cx
ClampY(r) ==
    IF Top(r) < Playfield.top THEN Playfield.top + r.hh
    ELSE IF Bottom(r) > Playfield.bottom THEN Playfield.bottom - r.hh
    ELSE r.cy

----------------------------------------------------------------------------
(* Orientation *)

\* the dominant-axis test letting exact diagonals go horizontal
orientation_from_vector_ties_horizontal(x, y) ==
    IF x * x + y * y = 0 THEN "up"
    ELSE IF Abs(x) >= Abs(y) THEN (IF x > 0 THEN "right" ELSE "left")
    ELSE (IF y > 0 THEN "down" ELSE "up")

\* graphics.orientation_from_vector
orientation_from_vector(x, y) ==
    IF x * x + y * y = 0 THEN "up"
    ELSE IF Abs(x) > Abs(y) THEN (IF x > 0 THEN "right" ELSE "left")
    ELSE (IF y > 0 THEN "down" ELSE "up")

----------------------------------------------------------------------------
(* The mobile unit *)

\* Tank.__init__: rect centred on the spawn position, position = rect.center
NewTank(x, y, speed, health, reload_ms) ==
    [px |-> FloatOfInt(x), py |-> FloatOfInt(y), cx |-> x, cy |-> y,
     ori |-> "up", speed |-> speed, health |-> health,
     reload_ms |-> reload_ms, last_shot |-> 0]

TankRect(u) == RectOf(u.cx, u.cy, TankHalfW, TankHalfH)

\* a blocker as move sees it: its rect, and whether it has `health` and `speed`
TankBlocker(x, y) == [kind |-> "tank", rect |-> RectOf(x, y, TankHalfW, TankHalfH)]
ObstacleBlocker(x, y) == [kind |-> "obstacle", rect |-> RectOf(x, y, ObstacleHalfW, ObstacleHalfH)]
NoBlockers == [given |-> FALSE, items |-> <<>>]
Blockers(items) == [given |-> TRUE, items |-> items]

\* Vector2.normalize: one component of the unit vector of a direction; d is
\* the component, other the other component.  A zero component stays zero.
NormalizedOf(d, other) == FloatDiv(FloatOfInt(d), FloatSqrtOfInt(d * d + other * other))
NormalizedTable == [v \in TabulatedDirections |-> NormalizedOf(v[1], v[2])]
Normalized(d, other) ==
    IF <<d, other>> \in TabulatedDirections THEN NormalizedTable[<<d, other>>]
    ELSE NormalizedOf(d, other)

\* line 85: one component of _move_vector * speed * dt, the move vector being
\* the normalised direction, or the direction itself when it is zero
AxisDisplacementOf(d, other, speed, dtMs) ==
    FloatMul(FloatMul(Normalized(d, other), FloatOfInt(speed)), Seconds(dtMs))
AxisDisplacementTable ==
    [k \in TabulatedSteps |-> AxisDisplacementOf(k[1][1], k[1][2], k[2], k[3])]
AxisDisplacement(d, other, speed, dtMs) ==
    IF <<<<d, other>>, speed, dtMs>> \in TabulatedSteps
    THEN AxisDisplacementTable[<<<<d, other>>, speed, dtMs>>]
    ELSE AxisDisplacementOf(d, other, speed, dtMs)

\* lines 92-100: displace, sync the rect, clamp into the playfield
DisplaceAndClamp(u, dx, dy) ==
    Bind2(FloatAdd(u.px, dx), FloatAdd(u.py, dy), LAMBDA px, py :
        Bind(RectOf(PyRound(px), PyRound(py), TankHalfW, TankHalfH), LAMBDA r :
            IF FieldContains(r)
            THEN [u EXCEPT !.px = px, !.py = py, !.cx = r.cx, !.cy = r.cy]
            ELSE [u EXCEPT !.px = FloatOfInt(ClampX(r)), !.py = FloatOfInt(ClampY(r)),
                           !.cx = ClampX(r), !.cy = ClampY(r)]))

\* lines 114-130: unit against unit, the push-apart
\* lines 116, 120-121: delta / distance * COLLISION_PUSH_DISTANCE, the distance
\* being (delta_x**2 + delta_y**2)**0.5.  The power is the correctly rounded
\* square root for every dist2 at which the push is applied (both deltas
\* below the threshold).
PushAmount(delta, dist2) ==
    FloatMul(FloatDiv(FloatOfInt(delta), FloatSqrtOfInt(dist2)),
             FloatOfInt(COLLISION_PUSH_DISTANCE))

PushApart(u, b) ==
    LET delta_x == u.cx - b.cx
        delta_y == u.cy - b.cy
        dist2 == delta_x * delta_x + delta_y * delta_y
        within == Abs(delta_x) < TANK_COLLISION_THRESHOLD
                  /\ Abs(delta_y) < TANK_COLLISION_THRESHOLD
    IN  IF dist2 > 0
        THEN Bind2(IF within /\ Abs(delta_x) > Abs(delta_y)
                   THEN FloatAdd(u.px, PushAmount(delta_x, dist2)) ELSE u.px,
                   IF within /\ ~(Abs(delta_x) > Abs(delta_y))
                   THEN FloatAdd(u.py, PushAmount(delta_y, dist2)) ELSE u.py,
                   LAMBDA px, py :
                       [u EXCEPT !.px = px, !.py = py,
                                 !.cx = PyRound(px), !.cy = PyRound(py)])
        ELSE u

\* the obstacle flush choosing the axis of greatest penetration
ObstacleFlush_deepest(u, b) ==
    LET delta_x == u.cx - b.cx
        delta_y == u.cy - b.cy
        overlap_x == Abs(delta_x) - (TankHalfW + b.hw)
        overlap_y == Abs(delta_y) - (TankHalfH + b.hh)
        nx == IF delta_x > 0 THEN Right(b) + TankHalfW ELSE Left(b) - TankHalfW
        ny == IF delta_y > 0 THEN Bottom(b) + TankHalfH ELSE Top(b) - TankHalfH
    IN  IF overlap_x < 0 \/ overlap_y < 0
        THEN IF Abs(overlap_x) > Abs(overlap_y)
             THEN [u EXCEPT !.cx = nx, !.px = FloatOfInt(nx)]
             ELSE [u EXCEPT !.cy = ny, !.py = FloatOfInt(ny)]
        ELSE u

\* lines 134-165: unit against obstacle, flush on the axis of least penetration
ObstacleFlush(u, b) ==
    LET delta_x == u.cx - b.cx
        delta_y == u.cy - b.cy
        overlap_x == Abs(delta_x) - (TankHalfW + b.hw)
        overlap_y == Abs(delta_y) - (TankHalfH + b.hh)
        nx == IF delta_x > 0 THEN Right(b) + TankHalfW ELSE Left(b) - TankHalfW
        ny == IF delta_y > 0 THEN Bottom(b) + TankHalfH ELSE Top(b) - TankHalfH
    IN  IF overlap_x < 0 \/ overlap_y < 0
        THEN IF Abs(overlap_x) < Abs(overlap_y)
             THEN [u EXCEPT !.cx = nx, !.px = FloatOfInt(nx)]
             ELSE [u EXCEPT !.cy = ny, !.py = FloatOfInt(ny)]
        ELSE u

\* lines 105-165: the first pass over the blockers, from the i-th on.
\* The result is [u, hit]: the unit, and collision_occurred.
RECURSIVE ResolvePass(_, _, _, _)
ResolvePass(u, items, i, hit) ==
    IF i > Len(items) THEN [u |-> u, hit |-> hit]
    ELSE LET b == items[i]
         IN  IF CollideRect(TankRect(u), b.rect)
             THEN Bind(IF b.kind = "tank" THEN PushApart(u, b.rect)
                                          ELSE ObstacleFlush(u, b.rect),
                       LAMBDA apart : ResolvePass(apart, items, i + 1, TRUE))
             ELSE ResolvePass(u, items, i + 1, hit)

\* lines 182-191: horizontal retry, flush against every blocker still hit.
\* The result is [u, hit]: the unit, and horizontal_collision.
RECURSIVE FlushHorizontal(_, _, _, _, _)
FlushHorizontal(u, items, j, dx, hit) ==
    IF j > Len(items) THEN [u |-> u, hit |-> hit]
    ELSE LET b2 == items[j].rect
             nx == IF dx.s > 0 THEN Left(b2) - TankHalfW ELSE Right(b2) + TankHalfW
         IN  IF CollideRect(TankRect(u), b2)
             THEN Bind([u EXCEPT !.cx = nx, !.px = FloatOfInt(nx)],
                       LAMBDA flush : FlushHorizontal(flush, items, j + 1, dx, TRUE))
             ELSE FlushHorizontal(u, items, j + 1, dx, hit)

\* lines 203-212: vertical retry
RECURSIVE FlushVertical(_, _, _, _, _)
FlushVertical(u, items, j, dy, hit) ==
    IF j > Len(items) THEN [u |-> u, hit |-> hit]
    ELSE LET b2 == items[j].rect
             ny == IF dy.s > 0 THEN Top(b2) - TankHalfH ELSE Bottom(b2) + TankHalfH
         IN  IF CollideRect(TankRect(u), b2)
             THEN Bind([u EXCEPT !.cy = ny, !.py = FloatOfInt(ny)],
                       LAMBDA flush : FlushVertical(flush, items, j + 1, dy, TRUE))
             ELSE FlushVertical(u, items, j + 1, dy, hit)

\* lines 174-215: one slide attempt from the pre-move position.  Only the
\* rect coordinate of the retried axis is set from the position.
SlideAttempt(u, items, orig, dx, dy) ==
    IF CmpAbs(dx, dy) > 0
    THEN Bind(FloatAdd(orig.px, dx), LAMBDA px :
             Bind([u EXCEPT !.px = px, !.py = orig.py, !.cx = PyRound(px)],
                  LAMBDA back : FlushHorizontal(back, items, 1, dx, FALSE)))
    ELSE Bind(FloatAdd(orig.py, dy), LAMBDA py :
             Bind([u EXCEPT !.px = orig.px, !.py = py, !.cy = PyRound(py)],
                  LAMBDA back : FlushVertical(back, items, 1, dy, FALSE)))

\* move without the slide fallback
SlidePass_none(u, items, i, orig, dx, dy) == u

\* lines 168-215: the slide fallback, the outer loop from the i-th blocker on
RECURSIVE SlidePass(_, _, _, _, _, _)
SlidePass(u, items, i, orig, dx, dy) ==
    IF i > Len(items) THEN u
    ELSE IF CollideRect(TankRect(u), items[i].rect)
         THEN Bind(SlideAttempt(u, items, orig, dx, dy), LAMBDA s :
                  IF s.hit THEN SlidePass(s.u, items, i + 1, orig, dx, dy)
                  ELSE s.u)
         ELSE SlidePass(u, items, i + 1, orig, dx, dy)

\* move running the collision passes even when there is no displacement
move_always_resolves(u, dirx, diry, dtMs, blk) ==
    LET nonzero == dirx * dirx + diry * diry > 0
        faced == IF nonzero THEN [u EXCEPT !.ori = orientation_from_vector(dirx, diry)]
                 ELSE u
    IN  Bind2(AxisDisplacement(dirx, diry, u.speed, dtMs),
              AxisDisplacement(diry, dirx, u.speed, dtMs), LAMBDA dx, dy :
            Bind(DisplaceAndClamp(faced, dx, dy), LAMBDA moved :
                IF blk.given
                THEN Bind(ResolvePass(moved, blk.items, 1, FALSE), LAMBDA first :
                         IF first.hit
                         THEN SlidePass(first.u, blk.items, 1, u, dx, dy)
                         ELSE first.u)
                ELSE moved))

\* Tank.move(direction, dt, blockers), direction = (dirx, diry)
move(u, dirx, diry, dtMs, blk) ==
    LET nonzero == dirx * dirx + diry * diry > 0
        faced == IF nonzero THEN [u EXCEPT !.ori = orientation_from_vector(dirx, diry)]
                 ELSE u
    IN  Bind2(AxisDisplacement(dirx, diry, u.speed, dtMs),
              AxisDisplacement(diry, dirx, u.speed, dtMs), LAMBDA dx, dy :
            IF dx.s /= 0 \/ dy.s /= 0
            THEN Bind(DisplaceAndClamp(faced, dx, dy), LAMBDA moved :
                     IF blk.given
                     THEN Bind(ResolvePass(moved, blk.items, 1, FALSE), LAMBDA first :
                              IF first.hit
                              THEN SlidePass(first.u, blk.items, 1, u, dx, dy)
                              ELSE first.u)
                     ELSE moved)
            ELSE faced)

\* tank.py, Tank.move(direction, dt): the move of the single-file version of the
\* game, which knows no blockers: displace, round, clamp
legacy_move(u, dirx, diry, dtMs) ==
    LET nonzero == dirx * dirx + diry * diry > 0
        faced == IF nonzero THEN [u EXCEPT !.ori = orientation_from_vector(dirx, diry)]
                 ELSE u
    IN  DisplaceAndClamp(faced, AxisDisplacement(dirx, diry, u.speed, dtMs),
                         AxisDisplacement(diry, dirx, u.speed, dtMs))

\* a unit that is always ready to fire
can_fire_always(u, now_ms) == TRUE

\* can_fire with the comparison made strict
can_fire_strict(u, now_ms) == (now_ms - u.last_shot) > u.reload_ms

\* Tank.can_fire
can_fire(u, now_ms) == (now_ms - u.last_shot) >= u.reload_ms

\* take_hit reporting destruction only below zero
take_hit_result_below(u) == u.health - 1 < 0

\* Tank.take_hit: the unit after the call; the call returns health <= 0
take_hit(u) == [u EXCEPT !.health = u.health - 1]
take_hit_result(u) == take_hit(u).health <= 0

\* Tank.alive
alive(u) == u.health > 0

----------------------------------------------------------------------------
(* Projectiles *)

\* Bullet.__init__ for a cardinal or zero direction: the direction is
\* normalised (zero becomes "up"), the rect is centred on the position
NewBullet(x, y, dirx, diry, speed) ==
    LET zero == dirx * dirx + diry * diry = 0
        nx == IF zero THEN 0 ELSE Sign(dirx)
        ny == IF zero THEN -1 ELSE Sign(diry)
    IN  [px |-> FloatOfInt(x), py |-> FloatOfInt(y), cx |-> x, cy |-> y,
         dirx |-> nx, diry |-> ny, ori |-> orientation_from_vector(nx, ny),
         speed |-> speed, updates |-> 0]

BulletRect(b) == RectOf(b.cx, b.cy, BulletHalf, BulletHalf)

\* Tank.shoot, lines 233-239: direction_map[self.orientation]
DirectionOf(ori) ==
    IF ori = "up" THEN <<0, -1>>
    ELSE IF ori = "down" THEN <<0, 1>>
    ELSE IF ori = "left" THEN <<-1, 0>>
    ELSE <<1, 0>>

\* the spawn position centred on the edge the unit faces
SpawnPosition_on_edge(u) ==
    IF u.ori = "up" THEN <<u.cx, Top(TankRect(u))>>
    ELSE IF u.ori = "down" THEN <<u.cx, Bottom(TankRect(u))>>
    ELSE IF u.ori = "left" THEN <<Left(TankRect(u)), u.cy>>
    ELSE <<Right(TankRect(u)), u.cy>>

\* Tank.shoot, lines 248-265: the spawn position, half a projectile beyond the
\* edge the unit faces
SpawnPosition(u) ==
    IF u.ori = "up" THEN <<u.cx, Top(TankRect(u)) - BulletHalf>>
    ELSE IF u.ori = "down" THEN <<u.cx, Bottom(TankRect(u)) + BulletHalf>>
    ELSE IF u.ori = "left" THEN <<Left(TankRect(u)) - BulletHalf, u.cy>>
    ELSE <<Right(TankRect(u)) + BulletHalf, u.cy>>

\* Tank.shoot(bullet_images, bullets, now_ms): the result is [u, bullets]
shoot(u, bs, now_ms) ==
    IF ~can_fire(u, now_ms) THEN [u |-> u, bullets |-> bs]
    ELSE LET d == DirectionOf(u.ori)
             at == SpawnPosition(u)
         IN  [u |-> [u EXCEPT !.last_shot = now_ms],
              bullets |-> Append(bs, NewBullet(at[1], at[2], d[1], d[2], BULLET_SPEED))]

\* Bullet.update(dt), line 45: one component of direction * speed * dt, the
\* direction being a cardinal unit vector
FlightOf(d, speed, dtMs) == FloatMul(FloatMul(FloatOfInt(d), FloatOfInt(speed)), Seconds(dtMs))
FlightTable == [k \in TabulatedFlights |-> FlightOf(k[1], k[2], k[3])]
Flight(d, speed, dtMs) ==
    IF <<d, speed, dtMs>> \in TabulatedFlights THEN FlightTable[<<d, speed, dtMs>>]
    ELSE FlightOf(d, speed, dtMs)

\* a projectile that stays where it is
update_at_rest(b, dtMs) == [b EXCEPT !.updates = b.updates + 1]

\* Bullet.update(dt), lines 45-46: advance and sync the rect
update(b, dtMs) ==
    Bind2(FloatAdd(b.px, Flight(b.dirx, b.speed, dtMs)),
          FloatAdd(b.py, Flight(b.diry, b.speed, dtMs)), LAMBDA px, py :
        [b EXCEPT !.px = px, !.py = py, !.cx = PyRound(px), !.cy = PyRound(py),
                  !.updates = b.updates + 1])

\* a projectile killing itself as soon as it is not wholly inside the playfield
killed_unless_inside(b) == ~FieldContains(BulletRect(b))

\* Bullet.update(dt), lines 47-48: whether the projectile kills itself
killed(b) == ~FieldCollides(BulletRect(b))

\* Group.update(dt): every member is updated; the ones that kill themselves
\* leave the group.  The result is [live, dead].
RECURSIVE GroupUpdate(_, _, _)
GroupUpdate(bs, i, dtMs) ==
    IF i > Len(bs) THEN [live |-> <<>>, dead |-> {}]
    ELSE Bind2(update(bs[i], dtMs), GroupUpdate(bs, i + 1, dtMs), LAMBDA b, rest :
             IF killed(b) THEN [live |-> rest.live, dead |-> rest.dead \cup {b}]
             ELSE [live |-> <<b>> \o rest.live, dead |-> rest.dead])

----------------------------------------------------------------------------
(* The controller of the enemy unit.  The draws of the random module are   *)
(* arguments; the decision time drawn is given in milliseconds and the     *)
(* timer holds it in seconds, as a float.                                  *)

AI_DECISION_MIN_TIME == 350
AI_DECISION_MAX_TIME == 900
AlignTolerance == 18

\* EnemyController.__init__
NewController == [dirx |-> 0, diry |-> -1, timer |-> Zero]

\* the five vectors random.choice draws from
Choices == {<<1, 0>>, <<-1, 0>>, <<0, 1>>, <<0, -1>>, <<0, 0>>}

\* the seek branch heading for the opponent on both axes at once
SeekDirection_both_axes(u, tx, ty, choice) ==
    IF tx = u.cx /\ ty = u.cy THEN choice ELSE <<Sign(tx - u.cx), Sign(ty - u.cy)>>

\* the seek branch standing still on a tie
SeekDirection_tie_holds(u, tx, ty, choice) ==
    LET dx == tx - u.cx
        dy == ty - u.cy
    IN  IF Abs(dx) > Abs(dy) THEN <<IF dx > 0 THEN 1 ELSE -1, 0>>
        ELSE IF Abs(dy) > Abs(dx) THEN <<0, IF dy > 0 THEN 1 ELSE -1>>
        ELSE <<0, 0>>

\* the seek branch heading away from the opponent
SeekDirection_away(u, tx, ty, choice) ==
    LET dx == tx - u.cx
        dy == ty - u.cy
    IN  IF Abs(dx) > Abs(dy) THEN <<IF dx > 0 THEN -1 ELSE 1, 0>>
        ELSE IF dy /= 0 THEN <<0, IF dy > 0 THEN -1 ELSE 1>>
        ELSE choice

\* _pick_direction, lines 26-30 and the fall through to random.choice
SeekDirection(u, tx, ty, choice) ==
    LET dx == tx - u.cx
        dy == ty - u.cy
    IN  IF Abs(dx) > Abs(dy) THEN <<IF dx > 0 THEN 1 ELSE -1, 0>>
        ELSE IF dy /= 0 THEN <<0, IF dy > 0 THEN 1 ELSE -1>>
        ELSE choice

\* EnemyController._pick_direction(target_pos): seek is random.random() <
\* AI_TARGET_SEEK_PROBABILITY, choice is the draw of random.choice
_pick_direction(u, tx, ty, seek, choice) ==
    IF seek THEN SeekDirection(u, tx, ty, choice) ELSE choice

\* a controller that decides only once the timer is below zero
Deciding_below(timer) == timer.s < 0

\* update, line 52: the timer has run out
Deciding(timer) == timer.s <= 0

\* stall detection comparing nothing
Stalled_never(before, after, dirx, diry) == FALSE

\* update, line 58: the rect centre did not change and the direction is not zero
Stalled(before, after, dirx, diry) ==
    after.cx = before.cx /\ after.cy = before.cy /\ dirx * dirx + diry * diry > 0

\* the fire rule with the facings of the two axes exchanged
Aligned_across(u, tx, ty) ==
    \/ Abs(u.cy - ty) <= AlignTolerance /\ u.ori \in {"up", "down"}
    \/ Abs(u.cx - tx) <= AlignTolerance /\ u.ori \in {"left", "right"}

\* the fire rule without the facing test
Aligned_any_facing(u, tx, ty) ==
    Abs(u.cy - ty) <= AlignTolerance \/ Abs(u.cx - tx) <= AlignTolerance

\* update, lines 61-67: aligned with the target on the axis the unit faces along
Aligned(u, tx, ty) ==
    \/ Abs(u.cy - ty) <= AlignTolerance /\ u.ori \in {"left", "right"}
    \/ Abs(u.cx - tx) <= AlignTolerance /\ u.ori \in {"up", "down"}

\* update, lines 63-69: should_fire; randFire is random.random() <
\* AI_RANDOM_FIRE_PROBABILITY, drawn only when the unit is not aligned
ShouldFire(u, tx, ty, randFire) == Aligned(u, tx, ty) \/ randFire

\* update, lines 58-72, on the unit as the move of line 57 left it (moved): the
\* stall test and the fire rule.  before is the unit the call was given, dir the
\* direction it moved in, ticked and reset the timer after line 50 and line 54.
ai_after_move(before, moved, bs, tx, ty, now_ms, dir, ticked, deciding, reset, randFire) ==
    LET stalled == Stalled(before, moved, dir[1], dir[2])
        should_fire == ShouldFire(moved, tx, ty, randFire)
    IN  Bind(IF should_fire /\ can_fire(moved, now_ms)
             THEN shoot(moved, bs, now_ms)
             ELSE [u |-> moved, bullets |-> bs], LAMBDA shot :
            [ctl |-> [dirx |-> dir[1], diry |-> dir[2],
                      timer |-> IF stalled THEN Zero ELSE reset],
             u |-> shot.u, bullets |-> shot.bullets,
             ticked |-> ticked, deciding |-> deciding, reset |-> reset,
             moved |-> moved, stalled |-> stalled, should_fire |-> should_fire])

\* EnemyController.update(dt, target_pos, bullets, bullet_images, now_ms, blockers).
\* The result holds the controller, the unit and the projectiles after the
\* call, and what the call did on the way.
ai_update(c, u, bs, dtMs, tx, ty, now_ms, blk, seek, choice, timerDraw, randFire) ==
    Bind(FloatSub(c.timer, Seconds(dtMs)), LAMBDA ticked :
        LET deciding == Deciding(ticked)
            dir == IF deciding THEN _pick_direction(u, tx, ty, seek, choice)
                   ELSE <<c.dirx, c.diry>>
            reset == IF deciding THEN Seconds(timerDraw) ELSE ticked
        IN  Bind(move(u, dir[1], dir[2], dtMs, blk), LAMBDA moved :
                ai_after_move(u, moved, bs, tx, ty, now_ms, dir,
                              ticked, deciding, reset, randFire)))

\* TankGame.__init__, line 142: the group of the two units
AllTanks == <<"player", "enemy">>

\* the game variables of the specifications that run no game
NoGame ==
    /\ player = NewTank(PlayerSpawn[1], PlayerSpawn[2], PLAYER_TANK_SPEED,
                        DEFAULT_TANK_HEALTH, DEFAULT_TANK_RELOAD_MS)
    /\ enemy = NewTank(EnemySpawn[1], EnemySpawn[2], ENEMY_TANK_SPEED,
                       DEFAULT_TANK_HEALTH, DEFAULT_TANK_RELOAD_MS)
    /\ ctl = NewController
    /\ player_bullets = <<>>
    /\ enemy_bullets = <<>>
    /\ state = "playing"
    /\ clock = 0
    /\ fired = [player |-> <<>>, enemy |-> <<>>]
    /\ tanks = AllTanks
    /\ running = TRUE

----------------------------------------------------------------------------
(* Movement: one unit, a blocker set fixed at construction, any sequence   *)
(* of move calls.                                                          *)

MaxMoves == 2

Directions == {-1, 0, 1}
\* milliseconds per tick: none, a 60 fps tick, a slow one, a stalled frame
DtValues == {0, 16, 33, 200}

WallObstacleX == Playfield.left + SpawnInset      \* the leftmost centre arena setup draws

\* The arenas a unit is put in.  The unit always starts inside the playfield.
Scenarios ==
    { \* open field, no blocker set at all / an empty one
      [x |-> PlayerSpawn[1], y |-> PlayerSpawn[2], blk |-> NoBlockers],
      [x |-> PlayerSpawn[1], y |-> PlayerSpawn[2], blk |-> Blockers(<<>>)],
      \* in the bottom right corner of the playfield
      [x |-> Playfield.right - TankHalfW, y |-> Playfield.bottom - TankHalfH,
       blk |-> Blockers(<<>>)],
      \* at the left wall, just below an obstacle that leaves less than a unit's width
      [x |-> Playfield.left + TankHalfW, y |-> 245,
       blk |-> Blockers(<<ObstacleBlocker(WallObstacleX, 200)>>)],
      \* beside another unit, edges touching
      [x |-> 300, y |-> 300, blk |-> Blockers(<<TankBlocker(300 + 2 * TankHalfW, 300)>>)],
      \* overlapping another unit, centres closer than the threshold on both axes
      [x |-> 300, y |-> 300, blk |-> Blockers(<<TankBlocker(310, 305)>>)],
      [x |-> 300, y |-> 300, blk |-> Blockers(<<TankBlocker(300, 300)>>)],
      [x |-> 300, y |-> 300, blk |-> Blockers(<<TankBlocker(280, 330)>>)],
      \* another unit and an obstacle
      [x |-> 300, y |-> 300,
       blk |-> Blockers(<<TankBlocker(320, 310), ObstacleBlocker(300, 345)>>)],
      \* overlapping another unit above, an obstacle touching below
      [x |-> 300, y |-> 300,
       blk |-> Blockers(<<TankBlocker(300, 270),
                          ObstacleBlocker(300, 300 + TankHalfH + ObstacleHalfH)>>)] }

IdleUnit == NewTank(PlayerSpawn[1], PlayerSpawn[2], PLAYER_TANK_SPEED,
                    DEFAULT_TANK_HEALTH, DEFAULT_TANK_RELOAD_MS)

Init ==
    /\ \E s \in Scenarios :
          /\ unit = NewTank(s.x, s.y, PLAYER_TANK_SPEED, DEFAULT_TANK_HEALTH,
                            DEFAULT_TANK_RELOAD_MS)
          /\ blockers = s.blk
    /\ last = [op |-> "init"]
    /\ NoGame
    /\ calls = 0
    /\ bullets = <<>>
    /\ expired = {}
    /\ obstacles = {}
    /\ wanted = 0
    /\ attempts = 0
    /\ vec = <<0, 0>>
    /\ facing = "none"
    /\ shotLog = <<>>
    /\ heading = <<0, 0>>
    /\ built = unit

\* unit.move(direction, dt, blockers)
Move(dirx, diry, dtMs) ==
    /\ calls < MaxMoves
    /\ unit' = move(unit, dirx, diry, dtMs, blockers)
    /\ last' = [op |-> "move", dirx |-> dirx, diry |-> diry, dt |-> dtMs, pre |-> unit]
    /\ calls' = calls + 1
    /\ UNCHANGED <<blockers, bullets, expired, obstacles, attempts, vec, facing, shotLog, heading, built, wanted, gameVars>>

Next == \E dirx \in Directions, diry \in Directions, dtMs \in DtValues : Move(dirx, diry, dtMs)

Spec == Init /\ [][Next]_vars

----------------------------------------------------------------------------
(* Movement with any elapsed time: the same arenas, and move calls whose   *)
(* dt may also be negative (move does not look at the sign of dt).         *)

AnyDtValues == {-33, -16, 0, 16}

\* unit.move(direction, dt, blockers), dt of either sign
MoveAnyDt(dirx, diry, dtMs) ==
    /\ calls < MaxMoves
    /\ unit' = move(unit, dirx, diry, dtMs, blockers)
    /\ last' = [op |-> "move_any", dirx |-> dirx, diry |-> diry, dt |-> dtMs, pre |-> unit]
    /\ calls' = calls + 1
    /\ UNCHANGED <<blockers, bullets, expired, obstacles, attempts, vec, facing, shotLog,
                   heading, built, wanted, gameVars>>

NextAnyDt ==
    \E dirx \in Directions, diry \in Directions, dtMs \in AnyDtValues :
        MoveAnyDt(dirx, diry, dtMs)

SpecAnyDt == Init /\ [][NextAnyDt]_vars

----------------------------------------------------------------------------
(* Movement along directions that are neither axis-aligned nor diagonal:   *)
(* the same arenas, and move calls whose two displacements differ.         *)

SlantDirections ==
    { <<2, 1>>, <<2, -1>>, <<-2, 1>>, <<-2, -1>>, <<1, 2>>, <<1, -2>>, <<-1, 2>>, <<-1, -2>> }
SlantTicks == {16, 33}

NextSlant == \E d \in SlantDirections, dtMs \in SlantTicks : Move(d[1], d[2], dtMs)

SpecSlant == Init /\ [][NextSlant]_vars

----------------------------------------------------------------------------
(* Driving into an obstacle: one unit, one stationary obstacle, the unit   *)
(* repeats move with the same axis-aligned direction.                      *)

MaxAdvance == 4

\* milliseconds per tick: 60 fps ticks, a slow one, and stalled frames in which
\* the unit covers half its height (200) and its whole height (400)
TickValues == {16, 17, 33, 200, 400}
TheObstacle == ObstacleBlocker(300, 200)
Gaps == {0, 1, 3}                  \* pixels between the unit's leading edge and the obstacle

\* lateral placements: centred, and with the sides of the two rects overlapping by 1 and 4
LateralX == {0, TankHalfW + ObstacleHalfW - 1, -(TankHalfW + ObstacleHalfW - 4)}
LateralY == {0, -(TankHalfH + ObstacleHalfH - 1), TankHalfH + ObstacleHalfH - 4}

IntoStarts ==
    {[h |-> <<1, 0>>, x |-> Left(TheObstacle.rect) - TankHalfW - g, y |-> TheObstacle.rect.cy + o] :
        g \in Gaps, o \in LateralY}
    \cup {[h |-> <<-1, 0>>, x |-> Right(TheObstacle.rect) + TankHalfW + g, y |-> TheObstacle.rect.cy + o] :
        g \in Gaps, o \in LateralY}
    \cup {[h |-> <<0, 1>>, x |-> TheObstacle.rect.cx + o, y |-> Top(TheObstacle.rect) - TankHalfH - g] :
        g \in Gaps, o \in LateralX}
    \cup {[h |-> <<0, -1>>, x |-> TheObstacle.rect.cx + o, y |-> Bottom(TheObstacle.rect) + TankHalfH + g] :
        g \in Gaps, o \in LateralX}

InitInto ==
    /\ \E s \in IntoStarts :
          /\ unit = NewTank(s.x, s.y, PLAYER_TANK_SPEED, DEFAULT_TANK_HEALTH,
                            DEFAULT_TANK_RELOAD_MS)
          /\ heading = s.h
    /\ blockers = Blockers(<<TheObstacle>>)
    /\ last = [op |-> "init"]
    /\ NoGame
    /\ calls = 0
    /\ bullets = <<>>
    /\ expired = {}
    /\ obstacles = {}
    /\ wanted = 0
    /\ attempts = 0
    /\ vec = <<0, 0>>
    /\ facing = "none"
    /\ shotLog = <<>>
    /\ built = unit

\* unit.move(heading, dt, [obstacle])
Advance(dtMs) ==
    /\ calls < MaxAdvance
    /\ unit' = move(unit, heading[1], heading[2], dtMs, blockers)
    /\ last' = [op |-> "advance", dirx |-> heading[1], diry |-> heading[2], dt |-> dtMs,
                pre |-> unit]
    /\ calls' = calls + 1
    /\ UNCHANGED <<blockers, bullets, expired, obstacles, attempts, vec, facing, shotLog, heading, built, wanted, gameVars>>

NextInto == \E dtMs \in TickValues : Advance(dtMs)

SpecInto == InitInto /\ [][NextInto]_vars

----------------------------------------------------------------------------
(* Firing and damage: one unit that turns (a move call with dt = 0), fires *)
(* at clock values that never decrease, and is hit.                        *)

MaxShots == 4            \* shoot calls
MaxHealth == 3           \* health a unit is built with: 1..MaxHealth
MaxOverkill == 1         \* hits taken after health reached 0

NowValues == {0, 449, 450, 900, 1350}
Cardinals == {<<1, 0>>, <<-1, 0>>, <<0, 1>>, <<0, -1>>}

InitFire ==
    /\ \E h \in 1..MaxHealth :
          unit = NewTank(PlayerSpawn[1], PlayerSpawn[2], PLAYER_TANK_SPEED, h,
                         DEFAULT_TANK_RELOAD_MS)
    /\ built = unit
    /\ blockers = NoBlockers
    /\ last = [op |-> "init"]
    /\ NoGame
    /\ calls = 0
    /\ bullets = <<>>
    /\ expired = {}
    /\ obstacles = {}
    /\ wanted = 0
    /\ attempts = 0
    /\ vec = <<0, 0>>
    /\ facing = "none"
    /\ shotLog = <<>>
    /\ heading = <<0, 0>>

\* unit.move(direction, 0): turns the unit on the spot
Turn(d) ==
    /\ unit.ori /= orientation_from_vector(d[1], d[2])
    /\ unit' = move(unit, d[1], d[2], 0, blockers)
    /\ last' = [op |-> "turn", pre |-> unit]
    /\ UNCHANGED <<blockers, bullets, calls, expired, obstacles, attempts, vec, facing,
                   shotLog, heading, built, wanted, gameVars>>

\* unit.shoot(images, bullets, now_ms), the clock never running backwards
Shoot(now_ms) ==
    /\ Len(shotLog) < MaxShots
    /\ shotLog /= <<>> => now_ms >= shotLog[Len(shotLog)]
    /\ LET r == shoot(unit, bullets, now_ms)
       IN  /\ unit' = r.u
           /\ bullets' = r.bullets
    /\ shotLog' = Append(shotLog, now_ms)
    /\ last' = [op |-> "shoot", now |-> now_ms, pre |-> unit, preBullets |-> bullets]
    /\ UNCHANGED <<blockers, calls, expired, obstacles, attempts, vec, facing, heading, built, wanted, gameVars>>

\* unit.take_hit(); calls counts the hits taken
TakeHit ==
    /\ unit.health > -MaxOverkill
    /\ unit' = take_hit(unit)
    /\ calls' = calls + 1
    /\ last' = [op |-> "take_hit", result |-> take_hit_result(unit), pre |-> unit]
    /\ UNCHANGED <<blockers, bullets, expired, obstacles, attempts, vec, facing, shotLog,
                   heading, built, wanted, gameVars>>

NextFire ==
    \/ \E d \in Cardinals : Turn(d)
    \/ \E now_ms \in NowValues : Shoot(now_ms)
    \/ TakeHit

SpecFire == InitFire /\ [][NextFire]_vars

----------------------------------------------------------------------------
(* Projectiles in flight: a group of one or two projectiles, fired by      *)
(* units standing in two corners and near the top wall of the playfield,   *)
(* and any sequence of Group.update calls.                                 *)

MaxUpdates == 3

FlightTicks == {0, 16, 33, 100}
Muzzles ==
    {<<Playfield.left + TankHalfW, Playfield.top + TankHalfH>>,
     <<Playfield.right - TankHalfW, Playfield.bottom - TankHalfH>>,
     <<300, Playfield.top + TankHalfH + 30>>}
Facings == {"up", "down", "left", "right"}

\* the projectile a unit at p facing f fires
FiredFrom(p, f) ==
    LET u == [NewTank(p[1], p[2], PLAYER_TANK_SPEED, DEFAULT_TANK_HEALTH,
                      DEFAULT_TANK_RELOAD_MS) EXCEPT !.ori = f]
    IN  shoot(u, <<>>, DEFAULT_TANK_RELOAD_MS).bullets[1]

Shots == {FiredFrom(p, f) : p \in Muzzles, f \in Facings}

InitBullet ==
    /\ \/ \E b \in Shots : bullets = <<b>>
       \/ \E b1 \in Shots, b2 \in Shots : b1 /= b2 /\ bullets = <<b1, b2>>
    /\ expired = {}
    /\ unit = IdleUnit
    /\ built = unit
    /\ blockers = NoBlockers
    /\ last = [op |-> "init"]
    /\ NoGame
    /\ calls = 0
    /\ obstacles = {}
    /\ wanted = 0
    /\ attempts = 0
    /\ vec = <<0, 0>>
    /\ facing = "none"
    /\ shotLog = <<>>
    /\ heading = <<0, 0>>

\* bullets.update(dt)
Update(dtMs) ==
    /\ calls < MaxUpdates
    /\ bullets /= <<>>
    /\ LET r == GroupUpdate(bullets, 1, dtMs)
       IN  /\ bullets' = r.live
           /\ expired' = expired \cup r.dead
    /\ last' = [op |-> "update", dt |-> dtMs, pre |-> bullets]
    /\ calls' = calls + 1
    /\ UNCHANGED <<unit, blockers, obstacles, attempts, vec, facing, shotLog, heading, built, wanted, gameVars>>

NextBullet == \E dtMs \in FlightTicks : Update(dtMs)

SpecBullet == InitBullet /\ [][NextBullet]_vars

----------------------------------------------------------------------------
(* Arena setup: generate_random_obstacles as a loop of sampling attempts.  *)
(* random.randint draws are the inputs; they are taken from a set of       *)
(* positions of the spawn area chosen at the limits of each test.          *)

SampleMinX == Playfield.left + SpawnInset
SampleMaxX == Playfield.right - SpawnInset
SampleMinY == Playfield.top + SpawnInset
SampleMaxY == Playfield.bottom - SpawnInset

Draws ==
    { <<148, 148>>, <<248, 148>>, <<247, 148>>, <<148, 248>>, <<248, 248>>,
      <<300, 300>>, <<399, 331>>,        \* rects overlap, centres 100 apart or more
      <<182, 314>>, <<181, 314>>,        \* 80 and less than 80 from the player spawn
      <<458, 166>>, <<459, 166>> }       \* 80 and less than 80 from the enemy spawn

WantedValues == {0, 3, DEFAULT_OBSTACLES}

ObstacleRect(c) == RectOf(c[1], c[2], ObstacleHalfW, ObstacleHalfH)
ProbeRect(c) == RectOf(c[1], c[2], ClearProbeSize \div 2, ClearProbeSize \div 2)

\* math.sqrt(dx^2 + dy^2) < r, for integers
CloserThan(a, b, r) ==
    (a[1] - b[1]) * (a[1] - b[1]) + (a[2] - b[2]) * (a[2] - b[2]) < r * r

\* game.is_position_clear
is_position_clear(c, placed, player_pos, enemy_pos) ==
    /\ ~CloserThan(c, player_pos, OBSTACLE_SAFE_RADIUS)
    /\ ~CloserThan(c, enemy_pos, OBSTACLE_SAFE_RADIUS)
    /\ \A o \in placed : ~CollideRect(ProbeRect(c), ObstacleRect(o))

\* generate_random_obstacles, lines 75-85
too_close(c, placed) ==
    \E o \in placed :
        \/ CollideRect(ObstacleRect(c), ObstacleRect(o))
        \/ CloserThan(c, o, OBSTACLE_MIN_DISTANCE)

\* acceptance without the spawn-point test
Accepts_anywhere(c, placed) == ~too_close(c, placed)

\* generate_random_obstacles, lines 87-88
Accepts(c, placed) ==
    ~too_close(c, placed) /\ is_position_clear(c, placed, PlayerSpawn, EnemySpawn)

\* a loop that stops one obstacle late
Sampling_one_late == Cardinality(obstacles) <= wanted /\ attempts < MaxAttempts

\* generate_random_obstacles, line 66: the loop goes on
Sampling == Cardinality(obstacles) < wanted /\ attempts < MaxAttempts

InitArena ==
    /\ wanted \in WantedValues
    /\ obstacles = {}
    /\ attempts = 0
    /\ unit = IdleUnit
    /\ built = unit
    /\ blockers = NoBlockers
    /\ last = [op |-> "init"]
    /\ NoGame
    /\ calls = 0
    /\ bullets = <<>>
    /\ expired = {}
    /\ vec = <<0, 0>>
    /\ facing = "none"
    /\ shotLog = <<>>
    /\ heading = <<0, 0>>

\* one turn of the loop, the draw being c
Attempt(c) ==
    /\ Sampling
    /\ c[1] \in SampleMinX..SampleMaxX /\ c[2] \in SampleMinY..SampleMaxY
    /\ obstacles' = IF Accepts(c, obstacles) THEN obstacles \cup {c} ELSE obstacles
    /\ attempts' = attempts + 1
    /\ UNCHANGED <<unit, blockers, bullets, last, calls, expired, vec, facing, shotLog,
                   heading, built, wanted, gameVars>>

NextArena == \E c \in Draws : Attempt(c)

SpecArena == InitArena /\ [][NextArena]_vars

\* draws next to the two spawn points: at 80 from each or a little more, and one
\* in the middle of the field
SpawnDraws ==
    { <<190, 325>>, <<182, 314>>, <<148, 332>>,     \* by the player's spawn
      <<450, 155>>, <<458, 166>>, <<492, 148>>,     \* by the enemy's spawn
      <<300, 240>> }

NextArenaSpawn == \E c \in SpawnDraws : Attempt(c)

\* arena setup with draws next to the spawn points
SpecArenaSpawn == InitArena /\ [][NextArenaSpawn]_vars

\* draws for the run to the end of the budget: three that can be placed
\* together, one too close to a placed one, one too close to the player's spawn
RunDraws == { <<148, 148>>, <<248, 148>>, <<247, 148>>, <<300, 300>>, <<181, 314>> }

NextArenaRun == \E c \in RunDraws : Attempt(c)

\* the same loop, run: while its condition holds the next attempt is made
SpecArenaRun == InitArena /\ [][NextArenaRun]_vars /\ WF_vars(NextArenaRun)

----------------------------------------------------------------------------
(* The orientation helper on every vector of a square of the plane.        *)

VecMax == 5

InitOrient ==
    /\ vec \in (-VecMax..VecMax) \X (-VecMax..VecMax)
    /\ facing = "none"
    /\ unit = IdleUnit
    /\ built = unit
    /\ blockers = NoBlockers
    /\ last = [op |-> "init"]
    /\ NoGame
    /\ calls = 0
    /\ bullets = <<>>
    /\ expired = {}
    /\ obstacles = {}
    /\ wanted = 0
    /\ attempts = 0
    /\ shotLog = <<>>
    /\ heading = <<0, 0>>

\* orientation_from_vector(vec)
Orient ==
    /\ facing = "none"
    /\ facing' = orientation_from_vector(vec[1], vec[2])
    /\ UNCHANGED <<unit, blockers, bullets, last, calls, expired, obstacles, attempts, vec,
                   shotLog, heading, built, wanted, gameVars>>

NextOrient == Orient

SpecOrient == InitOrient /\ [][NextOrient]_vars

----------------------------------------------------------------------------
(* The controller at work: the enemy unit, an opponent that stands still,  *)
(* the obstacles, and any sequence of EnemyController.update calls.  As in *)
(* update_game the blockers are the opponent followed by the obstacles and *)
(* target_pos is the centre of the opponent's rect.  The clock advances by *)
(* dt with every call.                                                     *)

MaxThinks == 2

ThinkTicks == {0, 16, 450}          \* no time, a 60 fps tick, a stalled frame
TimerDraws == {450, AI_DECISION_MAX_TIME}
ThinkClock == 434                   \* a first 16 ms tick ends at the reload time exactly

\* where the enemy (e) and the opponent (t) stand, and the obstacles
ThinkScenarios ==
    { \* the two spawn points
      [e |-> EnemySpawn, t |-> PlayerSpawn, obs |-> <<>>],
      \* the enemy flush against an obstacle, the opponent straight behind it
      [e |-> <<350 + TankHalfW, 200>>, t |-> <<118, 200>>,
       obs |-> <<ObstacleBlocker(300, 200)>>],
      \* the same, the enemy two pixels away from the obstacle
      [e |-> <<352 + TankHalfW, 200>>, t |-> <<118, 200>>,
       obs |-> <<ObstacleBlocker(300, 200)>>],
      \* the opponent on a diagonal of the enemy, and on its very centre
      [e |-> <<300, 300>>, t |-> <<200, 200>>, obs |-> <<>>],
      [e |-> <<300, 300>>, t |-> <<400, 400>>, obs |-> <<>>],
      [e |-> <<300, 300>>, t |-> <<300, 300>>, obs |-> <<>>],
      \* the opponent above the enemy, at and just beyond the alignment tolerance
      [e |-> <<300, 300>>, t |-> <<300 + AlignTolerance, 100>>, obs |-> <<>>],
      [e |-> <<300, 300>>, t |-> <<301 + AlignTolerance, 100>>, obs |-> <<>>],
      \* the opponent beside the enemy, at the tolerance
      [e |-> <<400, 300>>, t |-> <<150, 300 - AlignTolerance>>, obs |-> <<>>],
      \* the opponent below and to the right, the horizontal distance the greater
      [e |-> <<200, 150>>, t |-> <<420, 300>>, obs |-> <<>>] }

InitAI ==
    /\ \E s \in ThinkScenarios :
          /\ enemy = NewTank(s.e[1], s.e[2], ENEMY_TANK_SPEED, DEFAULT_TANK_HEALTH,
                             DEFAULT_TANK_RELOAD_MS)
          /\ player = NewTank(s.t[1], s.t[2], PLAYER_TANK_SPEED, DEFAULT_TANK_HEALTH,
                              DEFAULT_TANK_RELOAD_MS)
          /\ blockers = Blockers(s.obs)
    /\ ctl = NewController
    /\ player_bullets = <<>>
    /\ enemy_bullets = <<>>
    /\ state = "playing"
    /\ clock = ThinkClock
    /\ fired = [player |-> <<>>, enemy |-> <<>>]
    /\ tanks = AllTanks
    /\ running = TRUE
    /\ last = [op |-> "init"]
    /\ calls = 0
    /\ unit = IdleUnit
    /\ built = unit
    /\ bullets = <<>>
    /\ expired = {}
    /\ obstacles = {}
    /\ wanted = 0
    /\ attempts = 0
    /\ vec = <<0, 0>>
    /\ facing = "none"
    /\ shotLog = <<>>
    /\ heading = <<0, 0>>

\* the blockers update_game hands to the enemy's move: the tanks, then the obstacles
BlockersOf(other, obs) == Blockers(<<TankBlocker(other.cx, other.cy)>> \o obs)

\* the draws of a call with dt = dtMs, those the controller c of the unit u does
\* not make at a fixed value: it draws a direction and a decision time only
\* when its timer runs out (lines 50-54), and from random.choice only when the
\* seek branch returns nothing (lines 22-32)
ThinkDraws(c, u, tx, ty, dtMs, seek, choice, timerDraw) ==
    IF Deciding(FloatSub(c.timer, Seconds(dtMs)))
    THEN (seek /\ SeekDirection(u, tx, ty, <<2, 2>>) /= <<2, 2>>) => choice = <<0, 0>>
    ELSE ~seek /\ choice = <<0, 0>> /\ timerDraw = AI_DECISION_MAX_TIME

\* enemy_ai.update(dt, player.rect.center, enemy_bullets, images, now_ms, blockers).
\* A draw the call does not make is given a fixed value.
Think(dtMs, seek, choice, timerDraw, randFire) ==
    /\ calls < MaxThinks
    /\ ThinkDraws(ctl, enemy, player.cx, player.cy, dtMs, seek, choice, timerDraw)
    /\ LET now_ms == clock + dtMs
       IN  \E r \in {ai_update(ctl, enemy, enemy_bullets, dtMs, player.cx, player.cy, now_ms,
                               BlockersOf(player, blockers.items), seek, choice, timerDraw,
                               randFire)} :
           /\ Aligned(r.moved, player.cx, player.cy) => ~randFire
           /\ ctl' = r.ctl
           /\ enemy' = r.u
           /\ enemy_bullets' = r.bullets
           /\ clock' = now_ms
           /\ fired' = IF Len(r.bullets) > Len(enemy_bullets)
                       THEN [fired EXCEPT !.enemy = Append(@, now_ms)] ELSE fired
           /\ last' = [op |-> "think", dt |-> dtMs, now |-> now_ms, seek |-> seek,
                       choice |-> choice, timerDraw |-> timerDraw, randFire |-> randFire,
                       ctl |-> ctl, pre |-> enemy, preBullets |-> enemy_bullets,
                       ticked |-> r.ticked, deciding |-> r.deciding, reset |-> r.reset,
                       moved |-> r.moved]
    /\ calls' = calls + 1
    /\ UNCHANGED <<unit, blockers, bullets, expired, obstacles, attempts, vec, facing,
                   shotLog, heading, built, wanted, player, player_bullets, state, tanks,
                   running>>

NextAI ==
    \E dtMs \in ThinkTicks, seek \in BOOLEAN, choice \in Choices, timerDraw \in TimerDraws,
       randFire \in BOOLEAN :
        Think(dtMs, seek, choice, timerDraw, randFire)

SpecAI == InitAI /\ [][NextAI]_vars

----------------------------------------------------------------------------
(* The game tick: TankGame.update_game on the player, the enemy and its    *)
(* controller, the two projectile groups and the obstacles.  The keys held *)
(* and the draws of the controller are the inputs; the clock advances by   *)
(* dt with every tick.                                                     *)

MaxTicks == 2

\* update_game, line 159, as move reads it: the units of the group other than
\* the mover, then the obstacles.  p and e are the player and the enemy.
TickBlockers(group, mover, p, e, obs) ==
    LET other(n) == n /= mover
        others == SelectSeq(group, other)
        blockerOf(n) == IF n = "player" THEN TankBlocker(p.cx, p.cy)
                        ELSE TankBlocker(e.cx, e.cy)
    IN  Blockers([i \in 1..Len(others) |-> blockerOf(others[i])] \o obs)

\* player fire and move, the fire made before the move
PlayerStep_fire_first(p, blk, pbs, dirx, diry, fire, dtMs, now_ms) ==
    Bind(IF fire THEN shoot(p, pbs, now_ms) ELSE [u |-> p, bullets |-> pbs], LAMBDA shot :
        [u |-> move(shot.u, dirx, diry, dtMs, blk), bullets |-> shot.bullets])

\* update_game, lines 163-164: the player's fire, on the player as its move left it
PlayerFire(moved, pbs, fire, now_ms) ==
    IF fire THEN shoot(moved, pbs, now_ms) ELSE [u |-> moved, bullets |-> pbs]

\* update_game, lines 159-164: handle_player_input, then the player's fire
PlayerStep(p, blk, pbs, dirx, diry, fire, dtMs, now_ms) ==
    Bind(move(p, dirx, diry, dtMs, blk), LAMBDA moved :
        PlayerFire(moved, pbs, fire, now_ms))

\* projectiles that fly through obstacles
ClearOfObstacles_none(bs, obs) == bs

\* groupcollide(bullets, obstacles, True, False): the projectiles left
ClearOfObstacles(bs, obs) ==
    LET clear(b) == \A i \in 1..Len(obs) : ~CollideRect(BulletRect(b), obs[i].rect)
    IN  SelectSeq(bs, clear)

\* a hit test that removes the first projectile that struck, and no other
bullet_hits_first_only(target, bs) ==
    LET strikes(i) == CollideRect(BulletRect(bs[i]), TankRect(target))
        struck == {i \in 1..Len(bs) : strikes(i)}
        first == CHOOSE i \in struck : \A j \in struck : i <= j
    IN  IF struck = {} THEN [hit |-> FALSE, bullets |-> bs]
        ELSE [hit |-> TRUE,
              bullets |-> SubSeq(bs, 1, first - 1) \o SubSeq(bs, first + 1, Len(bs))]

\* bullet_hits(target, projectiles): whether any projectile struck the target,
\* and the projectiles left (dokill=True removes every one that did)
bullet_hits(target, bs) ==
    LET misses(b) == ~CollideRect(BulletRect(b), TankRect(target))
        left == SelectSeq(bs, misses)
    IN  [hit |-> Len(left) < Len(bs), bullets |-> left]

\* the round state with the enemy's destruction written last
round_state_victory_last(prev, won, lost) ==
    IF won THEN "victory" ELSE IF lost THEN "defeat" ELSE prev

\* update_game, lines 179-187: self.state after the two hit tests; won and lost
\* are the results of the enemy's and of the player's take_hit
round_state(prev, won, lost) ==
    IF lost THEN "defeat" ELSE IF won THEN "victory" ELSE prev

\* Sprite.kill(), lines 181 and 186: the group without the unit
Without(group, name) ==
    LET keep(n) == n /= name
    IN  SelectSeq(group, keep)

\* the projectiles of bs that overlap the target
Over(bs, target) ==
    LET over(b) == CollideRect(BulletRect(b), TankRect(target))
    IN  SelectSeq(bs, over)

\* the projectiles of bs that overlap both an obstacle and the target
Shielded(bs, obs, target) ==
    LET behind(b) == \E i \in 1..Len(obs) : CollideRect(BulletRect(b), obs[i].rect)
    IN  SelectSeq(Over(bs, target), behind)

\* update_game, lines 175-187: the obstacle test and the two hit tests.  p and a
\* are the results of the player's step and of the controller's update, padv
\* and eadv the two projectile groups after their advance.
resolve_hits(g, obs, p, a, padv, eadv) ==
    LET pflown == ClearOfObstacles(padv, obs)
        eflown == ClearOfObstacles(eadv, obs)
        onEnemy == bullet_hits(a.u, pflown)
        onPlayer == bullet_hits(p.u, eflown)
        won == onEnemy.hit /\ take_hit_result(a.u)
        lost == onPlayer.hit /\ take_hit_result(p.u)
        afterWon == IF won THEN Without(g.tanks, "enemy") ELSE g.tanks
    IN  [player |-> IF onPlayer.hit THEN take_hit(p.u) ELSE p.u,
         enemy |-> IF onEnemy.hit THEN take_hit(a.u) ELSE a.u,
         ctl |-> a.ctl,
         player_bullets |-> onEnemy.bullets,
         enemy_bullets |-> onPlayer.bullets,
         state |-> round_state(g.state, won, lost),
         tanks |-> IF lost THEN Without(afterWon, "player") ELSE afterWon,
         playerFired |-> Len(p.bullets) > Len(g.player_bullets),
         enemyFired |-> Len(a.bullets) > Len(g.enemy_bullets),
         deciding |-> a.deciding, aligned |-> Aligned(a.moved, p.u.cx, p.u.cy),
         struckEnemy |-> Len(pflown) - Len(onEnemy.bullets),
         struckPlayer |-> Len(eflown) - Len(onPlayer.bullets),
         overEnemy |-> Len(Over(padv, a.u)), overPlayer |-> Len(Over(eadv, p.u)),
         shieldedEnemy |-> Len(Shielded(padv, obs, a.u)),
         shieldedPlayer |-> Len(Shielded(eadv, obs, p.u))]

\* update_game, lines 171-187: both groups advance, lose the projectiles that
\* struck an obstacle, and are tested against their targets
advance_and_resolve(g, obs, dtMs, p, a) ==
    Bind2(GroupUpdate(p.bullets, 1, dtMs).live, GroupUpdate(a.bullets, 1, dtMs).live,
          LAMBDA padv, eadv : resolve_hits(g, obs, p, a, padv, eadv))

\* update_game, lines 167-187: the controller's update, given the player as its
\* step left it (p), and the rest of the tick
enemy_turn(g, obs, d, dtMs, now_ms, p) ==
    Bind(ai_update(g.ctl, g.enemy, g.enemy_bullets, dtMs, p.u.cx, p.u.cy, now_ms,
                   TickBlockers(g.tanks, "enemy", p.u, g.enemy, obs),
                   d.seek, d.choice, d.timerDraw, d.randFire),
         LAMBDA a : advance_and_resolve(g, obs, dtMs, p, a))

\* TankGame.update_game(dt, now_ms) on the game g = [player, enemy, ctl,
\* player_bullets, enemy_bullets, state, tanks]; obs are the obstacles, k the
\* keys held (a direction and the fire key), d the draws of the controller
update_game(g, obs, k, d, dtMs, now_ms) ==
    Bind(PlayerStep(g.player, TickBlockers(g.tanks, "player", g.player, g.enemy, obs),
                    g.player_bullets, k.dirx, k.diry, k.fire, dtMs, now_ms),
         LAMBDA p : enemy_turn(g, obs, d, dtMs, now_ms, p))

\* a loop that goes on updating the game when the round is over
Playing_always(s) == TRUE

\* TankGame.run, line 239: update_game is called while the round is being played
Playing(s) == s = "playing"

GameTicks == {16, 450}
GameChoices == {<<-1, 0>>, <<0, 0>>}
GameKeys == {<<0, 0>>, <<0, -1>>}          \* no key held, and the up key

\* where the game stands when the ticks start: the player (p) and the enemy (e),
\* their health, and the obstacles
GameScenarios ==
    { \* a fresh game with one obstacle
      [p |-> PlayerSpawn, e |-> EnemySpawn, hp |-> DEFAULT_TANK_HEALTH,
       he |-> DEFAULT_TANK_HEALTH, obs |-> <<ObstacleBlocker(300, 200)>>],
      \* the enemy four pixels above the player, each with one point of health
      [p |-> <<300, 300>>, e |-> <<300, 300 - 2 * TankHalfH - 4>>, hp |-> 1, he |-> 1,
       obs |-> <<>>],
      \* the player six pixels below an obstacle, the enemy away to the right
      [p |-> <<300, 222 + TankHalfH>>, e |-> <<500, 350>>, hp |-> DEFAULT_TANK_HEALTH,
       he |-> DEFAULT_TANK_HEALTH, obs |-> <<ObstacleBlocker(300, 200)>>],
      \* the player up and left of the enemy, one pixel short of the diagonal
      [p |-> <<200, 201>>, e |-> <<300, 300>>, hp |-> DEFAULT_TANK_HEALTH,
       he |-> DEFAULT_TANK_HEALTH, obs |-> <<>>],
      \* the enemy above the player and flush against an obstacle on its right,
      \* the edge between the two in the player's line of fire
      [p |-> <<300, 300>>, e |-> <<283, 222>>, hp |-> DEFAULT_TANK_HEALTH,
       he |-> DEFAULT_TANK_HEALTH,
       obs |-> <<ObstacleBlocker(283 + TankHalfW + ObstacleHalfW, 231)>>],
      \* the enemy straight above the player, as far as a projectile flies in 450 ms
      [p |-> <<300, 400>>, e |-> <<300, 170>>, hp |-> DEFAULT_TANK_HEALTH,
       he |-> DEFAULT_TANK_HEALTH, obs |-> <<>>] }

InitGame ==
    /\ \E s \in GameScenarios :
          /\ player = NewTank(s.p[1], s.p[2], PLAYER_TANK_SPEED, s.hp, DEFAULT_TANK_RELOAD_MS)
          /\ enemy = NewTank(s.e[1], s.e[2], ENEMY_TANK_SPEED, s.he, DEFAULT_TANK_RELOAD_MS)
          /\ blockers = Blockers(s.obs)
    /\ ctl = NewController
    /\ player_bullets = <<>>
    /\ enemy_bullets = <<>>
    /\ state = "playing"
    /\ clock = ThinkClock
    /\ fired = [player |-> <<>>, enemy |-> <<>>]
    /\ tanks = AllTanks
    /\ running = TRUE
    /\ last = [op |-> "init"]
    /\ calls = 0
    /\ unit = IdleUnit
    /\ built = unit
    /\ bullets = <<>>
    /\ expired = {}
    /\ obstacles = {}
    /\ wanted = 0
    /\ attempts = 0
    /\ vec = <<0, 0>>
    /\ facing = "none"
    /\ shotLog = <<>>
    /\ heading = <<0, 0>>

\* the game as update_game finds it
Game ==
    [player |-> player, enemy |-> enemy, ctl |-> ctl, player_bullets |-> player_bullets,
     enemy_bullets |-> enemy_bullets, state |-> state, tanks |-> tanks]

\* no key held
NoKeys == [dirx |-> 0, diry |-> 0, fire |-> FALSE]

\* the controller draws no seek, the zero vector and no random fire
StillDraws ==
    [seek |-> FALSE, choice |-> <<0, 0>>, timerDraw |-> AI_DECISION_MAX_TIME,
     randFire |-> FALSE]

\* TankGame.run, line 233, at the end of a turn: handle_events (148-152) has
\* cleared `running` if a QUIT event was queued, handle_input_after_game_over
\* (226-229) if the round is over by then and ESC or q is held
StillRunning(quit, escape, s) == ~quit /\ ~(s /= "playing" /\ escape)

\* the draws d of a turn update_game(dt, now_ms) takes on the game g, those the
\* controller does not make at a fixed value.  The controller draws a direction
\* only when its timer runs out (ai.py, lines 50-53), and from random.choice
\* only when it does not seek or the seek branch returns nothing (lines 25-38),
\* the centre of the player, its step of the turn taken (game.py, lines
\* 159-167), being the centre of the controller's unit
DrawsMade(g, obs, k, d, dtMs, now_ms) ==
    IF Deciding(FloatSub(g.ctl.timer, Seconds(dtMs)))
    THEN (d.seek /\ d.choice /= <<0, 0>>)
            => \E p \in {PlayerStep(g.player,
                                    TickBlockers(g.tanks, "player", g.player, g.enemy, obs),
                                    g.player_bullets, k.dirx, k.diry, k.fire, dtMs, now_ms)} :
                   SeekDirection(g.enemy, p.u.cx, p.u.cy, <<2, 2>>) = <<2, 2>>
    ELSE ~d.seek /\ d.choice = <<0, 0>>

\* what a turn of the loop that called update_game(dt, now_ms) leaves behind: r
\* is the result of update_game on the game g.  The random fire draw when the
\* controller does not make it, and the ESC key while the round is played, are
\* given a fixed value.
TickEffects(k, d, dtMs, now_ms, g, r, quit, escape) ==
    /\ r.state = "playing" => ~escape
    /\ running' = StillRunning(quit, escape, r.state)
    /\ r.aligned => ~d.randFire
    /\ player' = r.player
    /\ enemy' = r.enemy
    /\ ctl' = r.ctl
    /\ player_bullets' = r.player_bullets
    /\ enemy_bullets' = r.enemy_bullets
    /\ state' = r.state
    /\ tanks' = r.tanks
    /\ clock' = now_ms
    /\ fired' = [player |-> IF r.playerFired THEN Append(fired.player, now_ms)
                            ELSE fired.player,
                 enemy |-> IF r.enemyFired THEN Append(fired.enemy, now_ms)
                           ELSE fired.enemy]
    /\ last' = [op |-> "tick", dt |-> dtMs, now |-> now_ms, keys |-> k, draws |-> d,
                quit |-> quit, escape |-> escape, pre |-> g, deciding |-> r.deciding,
                playerFired |-> r.playerFired, enemyFired |-> r.enemyFired,
                struckEnemy |-> r.struckEnemy, struckPlayer |-> r.struckPlayer,
                overEnemy |-> r.overEnemy, overPlayer |-> r.overPlayer,
                shieldedEnemy |-> r.shieldedEnemy,
                shieldedPlayer |-> r.shieldedPlayer]
    /\ calls' = calls + 1
    /\ UNCHANGED <<unit, blockers, bullets, expired, obstacles, attempts, vec, facing,
                   shotLog, heading, built, wanted>>

\* one turn of TankGame.run while the game is being played: handle_events,
\* update_game(dt, now_ms), handle_input_after_game_over
TickStep(k, d, dtMs) ==
    /\ running
    /\ Playing(state)
    /\ DrawsMade(Game, blockers.items, k, d, dtMs, clock + dtMs)
    /\ \E r \in {update_game(Game, blockers.items, k, d, dtMs, clock + dtMs)} :
       \E quit \in BOOLEAN, escape \in BOOLEAN :
          TickEffects(k, d, dtMs, clock + dtMs, Game, r, quit, escape)

\* a turn of the loop, within the number of turns the game is followed for: the
\* keys held are a direction and the fire key, the draws of the controller seek,
\* choice and randFire
Tick(dir, fire, seek, choice, randFire, dtMs) ==
    /\ calls < MaxTicks
    /\ \E k \in {[dirx |-> dir[1], diry |-> dir[2], fire |-> fire]},
          d \in {[seek |-> seek, choice |-> choice, timerDraw |-> AI_DECISION_MAX_TIME,
                  randFire |-> randFire]} :
          TickStep(k, d, dtMs)

\* one turn of TankGame.run when the round is over: update_game is not called,
\* the movement keys and the draws are not read
Idle(dtMs) ==
    /\ calls < MaxTicks
    /\ running
    /\ ~Playing(state)
    /\ clock' = clock + dtMs
    /\ \E quit \in BOOLEAN, escape \in BOOLEAN :
          /\ running' = StillRunning(quit, escape, state)
          /\ last' = [op |-> "idle", dt |-> dtMs, now |-> clock + dtMs, keys |-> NoKeys,
                      draws |-> StillDraws, quit |-> quit, escape |-> escape,
                      pre |-> Game, deciding |-> FALSE,
                      playerFired |-> FALSE, enemyFired |-> FALSE,
                      struckEnemy |-> 0, struckPlayer |-> 0, overEnemy |-> 0,
                      overPlayer |-> 0, shieldedEnemy |-> 0, shieldedPlayer |-> 0]
    /\ calls' = calls + 1
    /\ UNCHANGED <<unit, blockers, bullets, expired, obstacles, attempts, vec, facing,
                   shotLog, heading, built, wanted, player, enemy, ctl, player_bullets,
                   enemy_bullets, state, fired, tanks>>

NextGame ==
    \/ \E dir \in GameKeys, fire \in BOOLEAN, seek \in BOOLEAN, choice \in GameChoices,
          randFire \in BOOLEAN, dtMs \in GameTicks :
           Tick(dir, fire, seek, choice, randFire, dtMs)
    \/ \E dtMs \in GameTicks : Idle(dtMs)

SpecGame == InitGame /\ [][NextGame]_vars

\* Two units and no obstacles: either unit moves, the other is its blocker.

MaxDuelMoves == 2

DuelDirections == {<<x, y>> : x \in {-1, 0, 1}, y \in {-1, 0, 1}}

\* the dt of a move, in ms: a frame at 60 fps, and a stall
DuelTicks == {16, 400}

\* where the two units stand, their rects apart: the player (p) and the enemy (e)
DuelScenarios ==
    { \* side by side, edges touching
      [p |-> <<300, 300>>, e |-> <<300 + 2 * TankHalfW, 300>>],
      \* one above the other, edges touching
      [p |-> <<300, 300>>, e |-> <<300, 300 + 2 * TankHalfH>>],
      \* corner to corner, one pixel apart on both axes
      [p |-> <<300, 300>>, e |-> <<300 + 2 * TankHalfW + 1, 300 + 2 * TankHalfH + 1>>],
      \* side by side against the left wall
      [p |-> <<Playfield.left + TankHalfW, 300>>,
       e |-> <<Playfield.left + 3 * TankHalfW, 300>>] }

InitDuel ==
    /\ \E s \in DuelScenarios :
          /\ player = NewTank(s.p[1], s.p[2], PLAYER_TANK_SPEED, DEFAULT_TANK_HEALTH,
                              DEFAULT_TANK_RELOAD_MS)
          /\ enemy = NewTank(s.e[1], s.e[2], ENEMY_TANK_SPEED, DEFAULT_TANK_HEALTH,
                             DEFAULT_TANK_RELOAD_MS)
    /\ ctl = NewController
    /\ player_bullets = <<>>
    /\ enemy_bullets = <<>>
    /\ state = "playing"
    /\ clock = 0
    /\ fired = [player |-> <<>>, enemy |-> <<>>]
    /\ tanks = AllTanks
    /\ running = TRUE
    /\ blockers = Blockers(<<>>)
    /\ last = [op |-> "init"]
    /\ calls = 0
    /\ unit = IdleUnit
    /\ built = unit
    /\ bullets = <<>>
    /\ expired = {}
    /\ obstacles = {}
    /\ wanted = 0
    /\ attempts = 0
    /\ vec = <<0, 0>>
    /\ facing = "none"
    /\ shotLog = <<>>
    /\ heading = <<0, 0>>

\* who.move(direction, dt, blockers), the blockers the two units of the group
DuelMove(who, dirx, diry, dtMs) ==
    /\ calls < MaxDuelMoves
    /\ \E r \in {move(IF who = "player" THEN player ELSE enemy, dirx, diry, dtMs,
                      TickBlockers(tanks, who, player, enemy, blockers.items))} :
          /\ player' = IF who = "player" THEN r ELSE player
          /\ enemy' = IF who = "enemy" THEN r ELSE enemy
    /\ last' = [op |-> "duel", who |-> who, dirx |-> dirx, diry |-> diry, dt |-> dtMs,
                pre |-> [player |-> player, enemy |-> enemy]]
    /\ calls' = calls + 1
    /\ UNCHANGED <<unit, blockers, bullets, expired, obstacles, attempts, vec, facing,
                   shotLog, heading, built, wanted, ctl, player_bullets, enemy_bullets,
                   state, clock, fired, tanks, running>>

NextDuel ==
    \E who \in {"player", "enemy"}, d \in DuelDirections, dtMs \in DuelTicks :
        DuelMove(who, d[1], d[2], dtMs)

SpecDuel == InitDuel /\ [][NextDuel]_vars

\* Projectiles in flight in a game that goes on: either unit has turned and
\* fired, or both have; then the loop runs for as long as a projectile is live,
\* no key held, the controller drawing the zero vector and no random fire.

\* the dt of a tick, in ms: a frame at 60 fps, and a stall
VolleyTicks == {16, 450}

\* the clock value of the shots
VolleyClock == 450

VolleyFacings == {"up", "down", "left", "right", "none"}

\* the player, the enemy 30 pixels to the right of the player's column and out
\* of the controller's alignment, and an obstacle on the player's row
VolleyPlayer == <<300, 300>>
VolleyEnemy == <<330, 150>>
VolleyObstacles == <<ObstacleBlocker(150, 310)>>

\* the unit u after it has turned to face f and fired, and its projectiles
Volley(u, f) ==
    IF f = "none" THEN [u |-> u, bullets |-> <<>>]
    ELSE shoot([u EXCEPT !.ori = f], <<>>, VolleyClock)

InitVolley ==
    /\ \E pf \in VolleyFacings, ef \in VolleyFacings :
          /\ pf /= "none" \/ ef /= "none"
          /\ \E p \in {Volley(NewTank(VolleyPlayer[1], VolleyPlayer[2], PLAYER_TANK_SPEED,
                                       DEFAULT_TANK_HEALTH, DEFAULT_TANK_RELOAD_MS), pf)},
                e \in {Volley(NewTank(VolleyEnemy[1], VolleyEnemy[2], ENEMY_TANK_SPEED,
                                       DEFAULT_TANK_HEALTH, DEFAULT_TANK_RELOAD_MS), ef)} :
                /\ player = p.u /\ player_bullets = p.bullets
                /\ enemy = e.u /\ enemy_bullets = e.bullets
                /\ fired = [player |-> IF pf = "none" THEN <<>> ELSE <<VolleyClock>>,
                            enemy |-> IF ef = "none" THEN <<>> ELSE <<VolleyClock>>]
    /\ blockers = Blockers(VolleyObstacles)
    /\ ctl = NewController
    /\ state = "playing"
    /\ clock = VolleyClock
    /\ tanks = AllTanks
    /\ running = TRUE
    /\ last = [op |-> "init"]
    /\ calls = 0
    /\ unit = IdleUnit
    /\ built = unit
    /\ bullets = <<>>
    /\ expired = {}
    /\ obstacles = {}
    /\ wanted = 0
    /\ attempts = 0
    /\ vec = <<0, 0>>
    /\ facing = "none"
    /\ shotLog = <<>>
    /\ heading = <<0, 0>>

\* a turn of the loop while a projectile is live: handle_events, then
\* update_game(dt, now_ms), taken stage by stage: the player's step (lines
\* 159-164), the controller's update (167-168), the flight of the projectiles
\* and the hit tests (171-187)
VolleyTick(dtMs) ==
    /\ running
    /\ player_bullets /= <<>> \/ enemy_bullets /= <<>>
    /\ Playing(state)
    /\ \E p \in {PlayerStep(player, TickBlockers(tanks, "player", player, enemy, blockers.items),
                            player_bullets, NoKeys.dirx, NoKeys.diry, NoKeys.fire, dtMs,
                            clock + dtMs)} :
       \E a \in {ai_update(ctl, enemy, enemy_bullets, dtMs, p.u.cx, p.u.cy, clock + dtMs,
                           TickBlockers(tanks, "enemy", p.u, enemy, blockers.items),
                           StillDraws.seek, StillDraws.choice, StillDraws.timerDraw,
                           StillDraws.randFire)} :
       \E r \in {advance_and_resolve(Game, blockers.items, dtMs, p, a)} :
       \E quit \in BOOLEAN :
          TickEffects(NoKeys, StillDraws, dtMs, clock + dtMs, Game, r, quit, FALSE)

NextVolley == \E dtMs \in VolleyTicks : VolleyTick(dtMs)

\* the loop goes on turning until a turn clears `running`
SpecVolley == InitVolley /\ [][NextVolley]_vars /\ WF_vars(NextVolley)

----------------------------------------------------------------------------
(* Claims *)

Synced(u) == u.cx = PyRound(u.px) /\ u.cy = PyRound(u.py)

InsideField(u) ==
    /\ Playfield.left <= u.cx - TankHalfW /\ u.cx + TankHalfW <= Playfield.right
    /\ Playfield.top <= u.cy - TankHalfH /\ u.cy + TankHalfH <= Playfield.bottom

\* C1: after any move call returns, the centre of the unit's rect is the
\* rounded position on both axes.
C1_SyncAfterMove == last.op = "move" => Synced(unit)

\* C2: a unit that starts inside the arena ends every move call with its rect
\* wholly inside the playfield.
C2_InsideAfterMove == last.op = "move" => InsideField(unit)

\* C3: a fresh unit with reload_ms = 450 firing at 0, 450, 900, 1350 creates a
\* projectile on every call, so that one hit per projectile takes a fresh target
\* from health 4 to 0, the fourth take_hit returning true.
FireSchedule == <<0, 450, 900, 1350>>
FreshTarget == NewTank(EnemySpawn[1], EnemySpawn[2], ENEMY_TANK_SPEED, DEFAULT_TANK_HEALTH,
                       DEFAULT_TANK_RELOAD_MS)
RECURSIVE HitTimes(_, _)
HitTimes(u, n) == IF n = 0 THEN u ELSE HitTimes(take_hit(u), n - 1)
OnSchedule ==
    /\ shotLog /= <<>>
    /\ Len(shotLog) <= Len(FireSchedule)
    /\ shotLog = SubSeq(FireSchedule, 1, Len(shotLog))
C3_FourShotsFourHits ==
    (OnSchedule /\ built.reload_ms = DEFAULT_TANK_RELOAD_MS) =>
        /\ Len(bullets) = Len(shotLog)
        /\ HitTimes(FreshTarget, Len(bullets)).health = DEFAULT_TANK_HEALTH - Len(shotLog)
        /\ Len(shotLog) = Len(FireSchedule)
              => take_hit_result(HitTimes(FreshTarget, Len(bullets) - 1))

\* C4: shoot before reload_ms has elapsed since the last shot changes neither the
\* unit nor the projectile collection; at or after it, it appends exactly one
\* projectile and sets the last-shot timestamp to now_ms, and nothing else.
C4_ShootGate ==
    last.op = "shoot" =>
        IF last.now - last.pre.last_shot < last.pre.reload_ms
        THEN unit = last.pre /\ bullets = last.preBullets
        ELSE /\ Len(bullets) = Len(last.preBullets) + 1
             /\ SubSeq(bullets, 1, Len(last.preBullets)) = last.preBullets
             /\ unit = [last.pre EXCEPT !.last_shot = last.now]
W4_ShotExactlyAtReload ==
    /\ last.op = "shoot"
    /\ last.pre.last_shot > 0
    /\ last.now - last.pre.last_shot = last.pre.reload_ms
    /\ Len(bullets) = Len(last.preBullets) + 1
    /\ unit.last_shot = last.now

\* the gap between the unit's leading edge and the obstacle's facing edge
\* (negative when the leading edge is past it)
LeadingGap(u, h, ob) ==
    IF h = <<1, 0>> THEN Left(ob) - (u.cx + TankHalfW)
    ELSE IF h = <<-1, 0>> THEN (u.cx - TankHalfW) - Right(ob)
    ELSE IF h = <<0, 1>> THEN Top(ob) - (u.cy + TankHalfH)
    ELSE (u.cy - TankHalfH) - Bottom(ob)

LateralCoord(u, h) == IF h[1] /= 0 THEN u.cy ELSE u.cx

\* by how many pixels the two rects overlap on the axis across the heading
LateralDepth(u, h, ob) ==
    IF h[1] /= 0 THEN (TankHalfH + ob.hh) - Abs(u.cy - ob.cy)
    ELSE (TankHalfW + ob.hw) - Abs(u.cx - ob.cx)

\* C5 as stated: every axis-aligned move into the obstacle ends without overlap,
\* without lateral drift, with the leading edge not past the obstacle's facing
\* edge, and leaves the rect as it was once the two edges met.
C5_FlushNoDrift ==
    last.op = "advance" =>
        /\ ~CollideRect(TankRect(unit), TheObstacle.rect)
        /\ LateralCoord(unit, heading) = LateralCoord(last.pre, heading)
        /\ LeadingGap(unit, heading, TheObstacle.rect) >= 0
        /\ LeadingGap(last.pre, heading, TheObstacle.rect) = 0
              => (unit.cx = last.pre.cx /\ unit.cy = last.pre.cy)

\* the distance between the two centres along the heading
CentreGap(u, h, ob) ==
    IF h[1] /= 0 THEN Abs(u.cx - ob.cx) ELSE Abs(u.cy - ob.cy)

\* the sum of the half extents of the two rects along the heading
ReachAlong(h, ob) == IF h[1] /= 0 THEN TankHalfW + ob.hw ELSE TankHalfH + ob.hh

\* the unit is short of the obstacle, the rects overlap across the heading by
\* more than the call's distance plus a pixel, and the call's distance plus a
\* pixel is less than the distance between the centres along the heading
DeepContact(u, h, ob, dtMs) ==
    /\ LeadingGap(u, h, ob) >= 0
    /\ LateralDepth(u, h, ob) * MsPerSecond > u.speed * dtMs + MsPerSecond
    /\ CentreGap(u, h, ob) * MsPerSecond > u.speed * dtMs + MsPerSecond

\* the unit is short of the obstacle and the rects overlap across the heading,
\* by less than the call's distance carries the leading edge past the facing
\* edge, a pixel allowed for rounding, and by less than it leaves the leading
\* edge short of the obstacle's far side
GrazingContact(u, h, ob, dtMs) ==
    /\ LeadingGap(u, h, ob) >= 0
    /\ LateralDepth(u, h, ob) > 0
    /\ (LateralDepth(u, h, ob) + LeadingGap(u, h, ob) + 1) * MsPerSecond < u.speed * dtMs
    /\ u.speed * dtMs + (LateralDepth(u, h, ob) + 1) * MsPerSecond
          < (2 * ReachAlong(h, ob) + LeadingGap(u, h, ob)) * MsPerSecond

\* C5 amended: every such move ends without overlap.  When the rects overlap
\* across the heading by more than the call's distance plus one pixel and that
\* distance plus one pixel is less than the distance between the centres along
\* the heading, the move causes no lateral drift, the leading edge never passes
\* the facing edge nor retreats, meets it when the distance covers the gap by
\* two pixels, and once the edges have met the rect no longer changes.  When
\* the rects overlap across the heading by less than the depth the call carries
\* the leading edge into the obstacle (a grazing contact), the move ends with
\* the unit moved sideways, its side edge on the obstacle's side edge, and its
\* leading edge past the facing edge.
C5_FlushWhenDeep ==
    last.op = "advance" =>
        /\ ~CollideRect(TankRect(unit), TheObstacle.rect)
        /\ DeepContact(last.pre, heading, TheObstacle.rect, last.dt) =>
              /\ LateralCoord(unit, heading) = LateralCoord(last.pre, heading)
              /\ LeadingGap(unit, heading, TheObstacle.rect) >= 0
              /\ LeadingGap(unit, heading, TheObstacle.rect)
                    <= LeadingGap(last.pre, heading, TheObstacle.rect)
              /\ last.pre.speed * last.dt
                    >= (LeadingGap(last.pre, heading, TheObstacle.rect) + 2) * MsPerSecond
                    => LeadingGap(unit, heading, TheObstacle.rect) = 0
              /\ LeadingGap(last.pre, heading, TheObstacle.rect) = 0
                    => (unit.cx = last.pre.cx /\ unit.cy = last.pre.cy)
        /\ GrazingContact(last.pre, heading, TheObstacle.rect, last.dt) =>
              /\ LateralCoord(unit, heading) /= LateralCoord(last.pre, heading)
              /\ LateralDepth(unit, heading, TheObstacle.rect) = 0
              /\ LeadingGap(unit, heading, TheObstacle.rect) < 0
W5_StaysFlush ==
    /\ last.op = "advance"
    /\ calls >= 2
    /\ LeadingGap(built, heading, TheObstacle.rect) > 0
    /\ DeepContact(last.pre, heading, TheObstacle.rect, last.dt)
    /\ LeadingGap(last.pre, heading, TheObstacle.rect) = 0
    /\ LeadingGap(unit, heading, TheObstacle.rect) = 0
    /\ unit.cx = last.pre.cx /\ unit.cy = last.pre.cy

Dist2(u, r) == (u.cx - r.cx) * (u.cx - r.cx) + (u.cy - r.cy) * (u.cy - r.cy)

\* the unit overlaps the blocker b, another unit, with the centres closer than
\* the threshold on both axes
OverlapsBelowThreshold(u, b) ==
    /\ b.kind = "tank"
    /\ CollideRect(TankRect(u), b.rect)
    /\ Abs(u.cx - b.rect.cx) < TANK_COLLISION_THRESHOLD
    /\ Abs(u.cy - b.rect.cy) < TANK_COLLISION_THRESHOLD

FartherFromOverlapped ==
    \A i \in 1..Len(blockers.items) :
        OverlapsBelowThreshold(last.pre, blockers.items[i])
            => Dist2(unit, blockers.items[i].rect) > Dist2(last.pre, blockers.items[i].rect)

\* C6 as stated: any move call by a unit overlapping another below the
\* threshold on both axes ends with the two centres strictly farther apart.
C6_PushApartAlways == last.op = "move" => FartherFromOverlapped

\* C6 amended: a move call with a non-zero direction and dt > 0 by a unit
\* overlapping another below the threshold on both axes, the other its only
\* blocker, ends with the two centres strictly farther apart; a move call with
\* a zero direction or dt = 0 leaves the position and the rect as they were.
C6_PushApartWhenMoving ==
    last.op = "move" =>
        IF last.dt > 0 /\ <<last.dirx, last.diry>> /= <<0, 0>>
        THEN (blockers.given /\ Len(blockers.items) = 1) => FartherFromOverlapped
        ELSE /\ unit.cx = last.pre.cx /\ unit.cy = last.pre.cy
             /\ unit.px = last.pre.px /\ unit.py = last.pre.py
W6_PushedApart ==
    /\ last.op = "move" /\ last.dt > 0 /\ <<last.dirx, last.diry>> /= <<0, 0>>
    /\ blockers.given
    /\ Len(blockers.items) = 1
    /\ OverlapsBelowThreshold(last.pre, blockers.items[1])
    /\ Dist2(last.pre, blockers.items[1].rect) > 0
    /\ Dist2(unit, blockers.items[1].rect) > Dist2(last.pre, blockers.items[1].rect)

\* C7: the obstacles placed never overlap one another, are pairwise at least
\* OBSTACLE_MIN_DISTANCE apart centre to centre, and are each at least
\* OBSTACLE_SAFE_RADIUS from the player's and the enemy's spawn point.
SqDist(a, b) == (a[1] - b[1]) * (a[1] - b[1]) + (a[2] - b[2]) * (a[2] - b[2])
C7_PlacementSafe ==
    /\ \A a \in obstacles, b \in obstacles :
          a /= b =>
             /\ \/ Abs(a[1] - b[1]) >= 2 * ObstacleHalfW
                \/ Abs(a[2] - b[2]) >= 2 * ObstacleHalfH
             /\ SqDist(a, b) >= OBSTACLE_MIN_DISTANCE * OBSTACLE_MIN_DISTANCE
    /\ \A a \in obstacles :
          /\ SqDist(a, PlayerSpawn) >= OBSTACLE_SAFE_RADIUS * OBSTACLE_SAFE_RADIUS
          /\ SqDist(a, EnemySpawn) >= OBSTACLE_SAFE_RADIUS * OBSTACLE_SAFE_RADIUS
W7_FullArena ==
    /\ ~Sampling
    /\ Cardinality(obstacles) = DEFAULT_OBSTACLES
    /\ attempts > DEFAULT_OBSTACLES
    /\ \E a \in obstacles :
          SqDist(a, EnemySpawn) = OBSTACLE_SAFE_RADIUS * OBSTACLE_SAFE_RADIUS
    /\ \E a \in obstacles, b \in obstacles :
          SqDist(a, b) = OBSTACLE_MIN_DISTANCE * OBSTACLE_MIN_DISTANCE

\* C8: on a unit built with health h >= 1, every take_hit lowers health by
\* exactly 1 and returns false on the first h - 1 calls, true on the h-th and on
\* every later call, health going below zero.
C8_HitsToDestroy ==
    last.op = "take_hit" =>
        /\ unit.health = last.pre.health - 1
        /\ unit.health = built.health - calls
        /\ last.result = (calls >= built.health)
W8_Overkill ==
    /\ last.op = "take_hit"
    /\ built.health >= 2
    /\ calls = built.health + 1
    /\ unit.health = -1
    /\ last.result = TRUE

\* C9: every update moves a projectile by direction * speed * dt and sets its
\* rect on the rounded position; a projectile is removed by the first update
\* that leaves its rect without intersection with the playfield, not before,
\* and a removed projectile is never updated again.
Intersects(b) ==
    /\ b.cx - BulletHalf < Playfield.right /\ b.cx + BulletHalf > Playfield.left
    /\ b.cy - BulletHalf < Playfield.bottom /\ b.cy + BulletHalf > Playfield.top
Advanced(b, dtMs) ==
    LET step == FloatMul(FloatOfInt(BULLET_SPEED), Seconds(dtMs))
        px == FloatAdd(b.px, FloatMul(FloatOfInt(b.dirx), step))
        py == FloatAdd(b.py, FloatMul(FloatOfInt(b.diry), step))
    IN  [b EXCEPT !.px = px, !.py = py, !.cx = PyRound(px), !.cy = PyRound(py),
                  !.updates = b.updates + 1]
Live == {bullets[i] : i \in 1..Len(bullets)}
FlightInv ==
    /\ \A b \in Live : b.updates > 0 => Intersects(b)
    /\ \A b \in Live : b.updates = calls
    /\ \A e \in expired : ~Intersects(e) /\ e.updates >= 1 /\ e.updates <= calls
    /\ last.op = "update" =>
          /\ \A i \in 1..Len(last.pre) :
                LET a == Advanced(last.pre[i], last.dt)
                IN  IF Intersects(a) THEN a \in Live /\ a \notin expired
                    ELSE a \in expired /\ a \notin Live
          /\ Len(bullets) + Cardinality({e \in expired : e.updates = calls}) = Len(last.pre)
C9_FlightAndExpiry == []FlightInv /\ [][expired \subseteq expired']_vars
W9_ExpiredLeavingField ==
    /\ last.op = "update"
    /\ Len(bullets) = 1
    /\ \E e \in expired : e.updates = 3 /\ e.updates = calls /\ ~Intersects(e)

\* C10: orientation_from_vector is total and follows the dominant-axis rule:
\* "up" for the zero vector; "right" or "left" by the sign of x when |x| > |y|;
\* otherwise, exact diagonals included, "down" for y > 0 and "up" for y < 0.
C10_DominantAxis ==
    facing /= "none" =>
        /\ facing \in {"up", "down", "left", "right"}
        /\ vec = <<0, 0>> => facing = "up"
        /\ (vec[1] * vec[1] > vec[2] * vec[2] /\ vec[1] > 0) => facing = "right"
        /\ (vec[1] * vec[1] > vec[2] * vec[2] /\ vec[1] < 0) => facing = "left"
        /\ (vec[1] * vec[1] <= vec[2] * vec[2] /\ vec[2] > 0) => facing = "down"
        /\ (vec[1] * vec[1] <= vec[2] * vec[2] /\ vec[2] < 0) => facing = "up"
W10_DiagonalGoesVertical == vec = <<3, -3>> /\ facing = "up"

\* C11: a move call with a negative dt is a no-op movement: the position and
\* the rect after the call are those before it, for any direction and blockers.
C11_NegativeDtNoOp ==
    (last.op = "move_any" /\ last.dt < 0) =>
        /\ unit.px = last.pre.px /\ unit.py = last.pre.py
        /\ unit.cx = last.pre.cx /\ unit.cy = last.pre.cy

\* C12: a move call with the zero direction, whatever dt and the blockers and
\* even when the unit overlaps a blocker, changes nothing of the unit (position,
\* rect, facing, health, last shot); the facing changes only in a move call with
\* a non-zero direction.
C12_ZeroDirectionNoOp ==
    last.op = "move_any" =>
        /\ (last.dirx = 0 /\ last.diry = 0) => unit = last.pre
        /\ unit.ori /= last.pre.ori => (last.dirx /= 0 \/ last.diry /= 0)

\* a zero-direction call with dt > 0 made while the unit overlapped a blocker
W12_AtRestWhileOverlapping ==
    /\ last.op = "move_any" /\ last.dirx = 0 /\ last.diry = 0 /\ last.dt > 0
    /\ \E i \in 1..Len(blockers.items) :
          CollideRect(TankRect(last.pre), blockers.items[i].rect)
    /\ unit = last.pre

\* the unit vector of a facing
FacingVector(f) ==
    CASE f = "up" -> <<0, -1>>
      [] f = "down" -> <<0, 1>>
      [] f = "left" -> <<-1, 0>>
      [] f = "right" -> <<1, 0>>

\* the edge of projectile rect b that trails, and the edge of unit rect r that
\* leads, when both face f
TrailingEdge(b, f) ==
    CASE f = "up" -> Bottom(b) [] f = "down" -> Top(b)
      [] f = "left" -> Right(b) [] f = "right" -> Left(b)
LeadingEdge(r, f) ==
    CASE f = "up" -> Top(r) [] f = "down" -> Bottom(r)
      [] f = "left" -> Left(r) [] f = "right" -> Right(r)

\* C13: the projectile a successful shoot creates flies along the unit vector
\* of the shooter's facing, is centred on the shooter across that direction,
\* has its trailing edge exactly on the shooter's edge in the facing direction,
\* and so does not overlap the shooter's rect; for all four facings.
C13_SpawnFlush ==
    (last.op = "shoot" /\ Len(bullets) = Len(last.preBullets) + 1) =>
        LET b == bullets[Len(bullets)]
            f == unit.ori
        IN  /\ <<b.dirx, b.diry>> = FacingVector(f)
            /\ b.px = FloatOfInt(b.cx) /\ b.py = FloatOfInt(b.cy)
            /\ f \in {"up", "down"} => b.cx = unit.cx
            /\ f \in {"left", "right"} => b.cy = unit.cy
            /\ TrailingEdge(BulletRect(b), f) = LeadingEdge(TankRect(unit), f)
            /\ ~CollideRect(BulletRect(b), TankRect(unit))

\* a projectile fired to the left, after projectiles fired in other directions
W13_FiredLeftAfterTurning ==
    /\ last.op = "shoot" /\ Len(bullets) = Len(last.preBullets) + 1
    /\ unit.ori = "left" /\ Len(bullets) >= 2
    /\ bullets[1].ori /= "left"
    /\ Right(BulletRect(bullets[Len(bullets)])) = Left(TankRect(unit))

\* C15: every update first takes dt off the timer; if the result is above zero
\* the direction of the previous tick is kept (and the timer keeps that result
\* unless the unit stalls); if it is zero or below a direction is picked and the
\* timer is reset to a value in [AI_DECISION_MIN_TIME, AI_DECISION_MAX_TIME]; so
\* with dt >= 0 the timer ends every update in [0, AI_DECISION_MAX_TIME].
C15_TimerDiscipline ==
    last.op = "think" =>
        /\ last.ticked = FloatSub(last.ctl.timer, Seconds(last.dt))
        /\ last.ticked.s > 0 =>
              /\ ~last.deciding
              /\ ctl.dirx = last.ctl.dirx /\ ctl.diry = last.ctl.diry
              /\ last.reset = last.ticked
        /\ last.ticked.s <= 0 =>
              /\ last.deciding
              /\ <<ctl.dirx, ctl.diry>> \in Choices
              /\ FloatCmp(last.reset, Seconds(AI_DECISION_MIN_TIME)) >= 0
              /\ FloatCmp(last.reset, Seconds(AI_DECISION_MAX_TIME)) <= 0
        /\ ctl.timer \in {Zero, last.reset}
        /\ ctl.timer.s >= 0 /\ FloatCmp(ctl.timer, Seconds(AI_DECISION_MAX_TIME)) <= 0

\* a second update that finds the timer run down to zero exactly and decides,
\* after a first one whose direction it replaces
W15_DecidesAtZero ==
    /\ last.op = "think" /\ calls = 2
    /\ last.ctl.timer.s > 0 /\ last.ticked = Zero /\ last.deciding
    /\ <<ctl.dirx, ctl.diry>> /= <<last.ctl.dirx, last.ctl.diry>>
    /\ ctl.timer = Seconds(AI_DECISION_MAX_TIME)

\* the float position, and the rect centre, of a unit are those of another
SamePosition(u, v) == u.px = v.px /\ u.py = v.py
SameCentre(u, v) == u.cx = v.cx /\ u.cy = v.cy

\* C16 as stated: a non-zero direction and an unchanged position zero the timer,
\* the next update then decides; a changed position leaves the timer alone.
C16_StallByPosition ==
    last.op = "think" =>
        /\ ((ctl.dirx /= 0 \/ ctl.diry /= 0) /\ SamePosition(enemy, last.pre)) => ctl.timer = Zero
        /\ ~SamePosition(enemy, last.pre) => ctl.timer = last.reset
        /\ last.ctl.timer = Zero => last.deciding

\* C16 amended: the test is on the rect centre.  A non-zero direction and an
\* unchanged rect centre zero the timer and the next update (dt >= 0) decides;
\* a changed rect centre leaves the timer at the value the decision step gave it.
C16_StallByCentre ==
    last.op = "think" =>
        /\ ((ctl.dirx /= 0 \/ ctl.diry /= 0) /\ SameCentre(enemy, last.pre)) => ctl.timer = Zero
        /\ ~SameCentre(enemy, last.pre) => (ctl.timer = last.reset /\ ctl.timer.s > 0)
        /\ last.ctl.timer = Zero => last.deciding

\* the enemy driven into the obstacle stalls in one update with time passing,
\* and decides in the next although the timer it had drawn was far from run out
W16_StalledThenDecided ==
    /\ last.op = "think" /\ calls = 2 /\ last.deciding
    /\ last.ctl.timer = Zero /\ last.dt = 16
    /\ last.ctl.dirx = -1
    /\ Len(blockers.items) = 1
    /\ last.pre.cx = Right(blockers.items[1].rect) + TankHalfW

\* what the controller saw when it decided: the opponent's centre less the
\* centre of its own rect before the move
SeekDelta == <<player.cx - last.pre.cx, player.cy - last.pre.cy>>
SeekTaken == last.op = "think" /\ last.deciding /\ last.seek

\* C17: a decision that takes the seek branch with |delta.x| /= |delta.y| picks
\* the unit cardinal vector along the axis of the greater absolute delta, with
\* the sign of delta on that axis: it points toward the opponent.
C17_SeekTowardOpponent ==
    (SeekTaken /\ Abs(SeekDelta[1]) /= Abs(SeekDelta[2])) =>
        IF Abs(SeekDelta[1]) > Abs(SeekDelta[2])
        THEN ctl.dirx = Sign(SeekDelta[1]) /\ ctl.diry = 0
        ELSE ctl.dirx = 0 /\ ctl.diry = Sign(SeekDelta[2])

\* the opponent below and to the right, farther to the right: the enemy seeks right
W17_SeeksRight ==
    /\ SeekTaken
    /\ SeekDelta[1] > SeekDelta[2] /\ SeekDelta[2] > 0
    /\ ctl.dirx = 1 /\ ctl.diry = 0
    /\ enemy.ori = "right" /\ enemy.cx > last.pre.cx

\* C18 as stated: a decision that takes the seek branch on a tie
\* |delta.x| = |delta.y|, delta = (0, 0) included, picks the zero vector.
C18_TieHolds ==
    (SeekTaken /\ Abs(SeekDelta[1]) = Abs(SeekDelta[2])) =>
        (ctl.dirx = 0 /\ ctl.diry = 0)

\* C18 amended: on a tie with delta.y /= 0 the seek branch picks the vertical
\* cardinal vector toward the opponent; with delta = (0, 0) it picks nothing and
\* the direction is the draw among the four cardinal vectors and the zero vector.
C18_TieGoesVertical ==
    (SeekTaken /\ Abs(SeekDelta[1]) = Abs(SeekDelta[2])) =>
        IF SeekDelta[2] /= 0
        THEN ctl.dirx = 0 /\ ctl.diry = Sign(SeekDelta[2])
        ELSE <<ctl.dirx, ctl.diry>> = last.choice /\ last.choice \in Choices

\* the opponent on the enemy's very centre: the seek branch falls through and
\* the direction is the cardinal vector drawn
W18_TieOnCentreDraws ==
    /\ SeekTaken /\ SeekDelta = <<0, 0>>
    /\ ctl.dirx = 1 /\ ctl.diry = 0

\* C19: after the move of the tick, whatever the decision and the timer: a
\* reloaded unit that is within 18 pixels of the opponent across the axis it
\* faces along fires in that tick; a unit that is not so aligned fires only
\* through the random branch; and nothing is fired before the reload time.
FiredNow == Len(enemy_bullets) = Len(last.preBullets) + 1
AlignedNow ==
    \/ Abs(enemy.cy - player.cy) <= 18 /\ enemy.ori \in {"left", "right"}
    \/ Abs(enemy.cx - player.cx) <= 18 /\ enemy.ori \in {"up", "down"}
ReloadedNow == last.now - last.pre.last_shot >= last.pre.reload_ms
C19_FireRule ==
    last.op = "think" =>
        /\ (ReloadedNow /\ AlignedNow) => FiredNow
        /\ (FiredNow /\ ~AlignedNow) => last.randFire
        /\ FiredNow => ReloadedNow
        /\ ~FiredNow => Len(enemy_bullets) = Len(last.preBullets)

\* the enemy turns from up to left in the move of the tick and fires at the
\* opponent beside it: the rule saw the facing after the move
W19_FiresAfterTurning ==
    /\ last.op = "think" /\ FiredNow /\ ~last.randFire
    /\ last.pre.ori = "up" /\ enemy.ori = "left"
    /\ Abs(enemy.cx - player.cx) > 18
    /\ enemy_bullets[Len(enemy_bullets)].dirx = -1

\* the clock values in log are reload apart or more, each from the one before
ReloadApart(log, reload) ==
    \A i \in 1..(Len(log) - 1) : log[i + 1] - log[i] >= reload

\* C14: with a clock that never runs backwards, two successive projectiles of
\* one unit are created at clock values at least reload_ms apart, whether the
\* player's fire key, the controller's alignment rule or its random rule fired
\* them; so a unit creates at most one projectile in a tick.
C14_ReloadBetweenShots ==
    /\ ReloadApart(fired.player, player.reload_ms)
    /\ ReloadApart(fired.enemy, enemy.reload_ms)
    /\ last.op = "tick" =>
          /\ last.playerFired =>
                (last.keys.fire /\ fired.player[Len(fired.player)] = last.now
                 /\ last.now - last.pre.player.last_shot >= player.reload_ms)
          /\ last.enemyFired =>
                (fired.enemy[Len(fired.enemy)] = last.now
                 /\ last.now - last.pre.enemy.last_shot >= enemy.reload_ms)

\* both units fired in two ticks, a reload time apart exactly, the enemy through
\* the random rule
W14_BothFiredTwice ==
    /\ last.op = "tick" /\ last.draws.randFire
    /\ Len(fired.player) = 2 /\ fired.player[2] - fired.player[1] = player.reload_ms
    /\ Len(fired.enemy) = 2 /\ fired.enemy[2] - fired.enemy[1] = enemy.reload_ms

\* where a projectile fired in this tick by unit u, as u is after the tick, must
\* be after its first advance: half a projectile beyond the edge u faces, plus
\* BULLET_SPEED * dt along the facing
FlownFrom(u, dtMs) ==
    LET f == FacingVector(u.ori)
        reach == (IF f[1] /= 0 THEN TankHalfW ELSE TankHalfH) + BulletHalf
        step == FloatMul(FloatOfInt(BULLET_SPEED), Seconds(dtMs))
    IN  <<FloatAdd(FloatOfInt(u.cx + f[1] * reach), FloatMul(FloatOfInt(f[1]), step)),
          FloatAdd(FloatOfInt(u.cy + f[2] * reach), FloatMul(FloatOfInt(f[2]), step))>>

\* every projectile of the group has been advanced and tested against the
\* obstacles and the target; the one created in this tick left from shooter as
\* it stands after its move
GroupSettled(bs, shooter, target) ==
    \A i \in 1..Len(bs) :
        /\ bs[i].updates >= 1
        /\ ~CollideRect(BulletRect(bs[i]), TankRect(target))
        /\ \A j \in 1..Len(blockers.items) :
              ~CollideRect(BulletRect(bs[i]), blockers.items[j].rect)
        /\ FieldCollides(BulletRect(bs[i]))
        /\ bs[i].updates = 1 =>
              /\ <<bs[i].px, bs[i].py>> = FlownFrom(shooter, last.dt)
              /\ <<bs[i].dirx, bs[i].diry>> = FacingVector(shooter.ori)

\* the opponent's centre as it is after the tick less the centre of the enemy's
\* rect before it
TickDelta == <<player.cx - last.pre.enemy.cx, player.cy - last.pre.enemy.cy>>

\* C20: a tick runs player move, player fire, controller decide/move/fire,
\* advance of all projectiles, obstacle and hit resolution, in this order: the
\* player's projectile leaves from the rect the player has after its move, the
\* controller seeks the position the player has after its move, and a projectile
\* created in a tick has been advanced and hit-tested when the tick ends.
C20_TickOrder ==
    last.op = "tick" =>
        /\ GroupSettled(player_bullets, player, enemy)
        /\ GroupSettled(enemy_bullets, enemy, player)
        /\ (last.deciding /\ last.draws.seek /\ Abs(TickDelta[1]) /= Abs(TickDelta[2])) =>
              IF Abs(TickDelta[1]) > Abs(TickDelta[2])
              THEN ctl.dirx = Sign(TickDelta[1]) /\ ctl.diry = 0
              ELSE ctl.dirx = 0 /\ ctl.diry = Sign(TickDelta[2])
        /\ enemy.health \in {last.pre.enemy.health, last.pre.enemy.health - 1}
        /\ enemy.health < last.pre.enemy.health =>
              (last.playerFired \/ last.pre.player_bullets /= <<>>)
        /\ state = "victory" => enemy.health <= 0
        /\ state = "defeat" => player.health <= 0

\* in one tick the player moved up, fired from where the move took it, and the
\* projectile struck and destroyed the enemy
W20_MovedFiredHit ==
    /\ last.op = "tick" /\ last.playerFired /\ last.pre.player_bullets = <<>>
    /\ player.cy < last.pre.player.cy
    /\ enemy.health = last.pre.enemy.health - 1
    /\ player_bullets = <<>>
    /\ state = "victory"

\* the loop has returned: what it returns is obstacles
Returned == ~Sampling

\* C22: generate_random_obstacles makes at most MaxAttempts sampling attempts and
\* then returns, whatever the draws and the count asked for; it never holds more
\* obstacles than were asked for, and it returns with fewer only when the attempt
\* budget is spent.
C22_SetupTerminates ==
    /\ [](/\ attempts <= MaxAttempts
          /\ Cardinality(obstacles) <= wanted
          /\ Returned => (Cardinality(obstacles) = wanted \/ attempts = MaxAttempts))
    /\ <>Returned

\* the budget is spent and the loop returns with fewer obstacles than asked for
W22_BudgetSpentShort ==
    /\ Returned
    /\ attempts = MaxAttempts
    /\ 0 < Cardinality(obstacles) /\ Cardinality(obstacles) < wanted

\* C29: no obstacle placed by arena setup overlaps the AABB the player or the
\* enemy has at its spawn position.
C29_SpawnsFree ==
    \A o \in obstacles :
        /\ ~CollideRect(ObstacleRect(o), TankRect(player))
        /\ ~CollideRect(ObstacleRect(o), TankRect(enemy))

\* the two displacements of the move just made
LastDx == AxisDisplacement(last.dirx, last.diry, last.pre.speed, last.dt)
LastDy == AxisDisplacement(last.diry, last.dirx, last.pre.speed, last.dt)

\* the unit of the move just made as the first pass over the blockers left it
AfterFirstPass ==
    ResolvePass(DisplaceAndClamp(last.pre, LastDx, LastDy), blockers.items, 1, FALSE)

\* the move just made fell back to the slide, and the retry with the dominant
\* displacement alone collided with a blocker
DominantRetryBlocked ==
    /\ last.op = "move" /\ blockers.given
    /\ LastDx.s /= 0 /\ LastDy.s /= 0 /\ CmpAbs(LastDx, LastDy) /= 0
    /\ AfterFirstPass.hit
    /\ \E i \in 1..Len(blockers.items) :
          CollideRect(TankRect(AfterFirstPass.u), blockers.items[i].rect)
    /\ SlideAttempt(AfterFirstPass.u, blockers.items, last.pre, LastDx, LastDy).hit

\* the unit displaced from its pre-move position along the other axis only
OtherAxisOnly ==
    IF CmpAbs(LastDx, LastDy) > 0
    THEN RectOf(last.pre.cx, PyRound(FloatAdd(last.pre.py, LastDy)), TankHalfW, TankHalfH)
    ELSE RectOf(PyRound(FloatAdd(last.pre.px, LastDx)), last.pre.cy, TankHalfW, TankHalfH)

\* nothing stands in the way of the displacement along the other axis
OtherAxisFree ==
    /\ FieldContains(OtherAxisOnly)
    /\ \A i \in 1..Len(blockers.items) :
          ~CollideRect(OtherAxisOnly, blockers.items[i].rect)

\* C24: when the slide's retry along the dominant axis collides with a blocker,
\* the displacement along the other axis is attempted; so a move with
\* |dx| /= |dy| that is blocked on its dominant axis leaves the unit displaced
\* along the other axis when nothing stands in its way there.
C24_SlideTriesOtherAxis ==
    (DominantRetryBlocked /\ OtherAxisFree) =>
        IF CmpAbs(LastDx, LastDy) > 0
        THEN unit.py = FloatAdd(last.pre.py, LastDy)
        ELSE unit.px = FloatAdd(last.pre.px, LastDx)

\* C26: for a unit whose AABB lies inside the arena, move without a blocker set,
\* move with an empty blocker set and the move of tank.py end with the same
\* position, AABB and facing, for every direction and every dt >= 0.
C26_BlockerFreeMovesAgree ==
    InsideField(unit) =>
        \A dirx \in Directions, diry \in Directions, dtMs \in DtValues :
            /\ move(unit, dirx, diry, dtMs, NoBlockers)
                  = move(unit, dirx, diry, dtMs, Blockers(<<>>))
            /\ move(unit, dirx, diry, dtMs, NoBlockers) = legacy_move(unit, dirx, diry, dtMs)

\* the units of the game g whose health is spent
Destroyed(g) == {n \in {"player", "enemy"} : g[n].health <= 0}

\* the units of a group
InPlay(group) == {group[i] : i \in 1..Len(group)}

\* the last step was a turn of the run loop
LoopTurn == last.op \in {"tick", "idle"}

\* C21: a unit whose health is spent is out of the group of units when the tick
\* that destroyed it ends, and every later turn of the loop runs no update: the
\* unit is not moved, does not fire, blocks nobody and is not damaged again.
C21_DestroyedLeavesPlay ==
    /\ \A n \in Destroyed(Game) : n \notin InPlay(tanks)
    /\ (LoopTurn /\ Destroyed(last.pre) /= {}) =>
          /\ last.op = "idle"
          /\ ~last.playerFired /\ ~last.enemyFired
          /\ player = last.pre.player /\ enemy = last.pre.enemy
          /\ tanks = last.pre.tanks

\* a turn of the loop after the tick that destroyed the enemy, the player alive
W21_TurnAfterDestruction ==
    /\ last.op = "idle"
    /\ enemy.health <= 0 /\ player.health > 0
    /\ tanks = <<"player">>

\* the round state that the healths of the game g call for
StateOf(g) ==
    IF g.player.health <= 0 THEN "defeat"
    ELSE IF g.enemy.health <= 0 THEN "victory" ELSE "playing"

\* C28: when a tick ends the round state is "defeat" if the player's health is
\* spent (also when both are), else "victory" if the enemy's is, else "playing";
\* once the state is not "playing" no turn changes the state, a unit's health or
\* position, or a projectile.
C28_StateFollowsHealth ==
    /\ state = StateOf(Game)
    /\ (LoopTurn /\ last.pre.state /= "playing") =>
          /\ state = last.pre.state
          /\ player = last.pre.player /\ enemy = last.pre.enemy
          /\ player_bullets = last.pre.player_bullets
          /\ enemy_bullets = last.pre.enemy_bullets

\* both units destroyed in one tick, and a turn of the loop after it
W28_BothDestroyedThenIdle ==
    /\ last.op = "idle"
    /\ player.health <= 0 /\ enemy.health <= 0
    /\ state = "defeat"
    /\ tanks = <<>>

\* no projectile of bs overlaps the unit u
NoneOver(bs, u) == \A i \in 1..Len(bs) : ~CollideRect(BulletRect(bs[i]), TankRect(u))

\* C23: across a tick each unit's health is unchanged or lower by exactly one,
\* however many projectiles overlap the unit in the tick, and every projectile
\* that overlapped it has left its group.
C23_OnePointPerTick ==
    LoopTurn =>
        /\ player.health \in {last.pre.player.health, last.pre.player.health - 1}
        /\ enemy.health \in {last.pre.enemy.health, last.pre.enemy.health - 1}
        /\ last.struckEnemy >= 1 => enemy.health = last.pre.enemy.health - 1
        /\ last.struckPlayer >= 1 => player.health = last.pre.player.health - 1
        /\ NoneOver(player_bullets, enemy)
        /\ NoneOver(enemy_bullets, player)

\* two projectiles struck the enemy in one tick and took one point of health
W23_TwoStruckOnePoint ==
    /\ last.op = "tick"
    /\ last.struckEnemy >= 2
    /\ enemy.health = last.pre.enemy.health - 1
    /\ player_bullets = <<>>

\* no projectile of bs overlaps an obstacle
NoneInObstacle(bs) ==
    \A i \in 1..Len(bs), j \in 1..Len(blockers.items) :
        ~CollideRect(BulletRect(bs[i]), blockers.items[j].rect)

\* a tick left the projectiles clear of the obstacles, and took health from a unit
\* only when a projectile overlapped the unit and no obstacle
ObstaclesFirst ==
    last.op = "tick" =>
        /\ NoneInObstacle(player_bullets) /\ NoneInObstacle(enemy_bullets)
        /\ enemy.health < last.pre.enemy.health => last.overEnemy > last.shieldedEnemy
        /\ player.health < last.pre.player.health => last.overPlayer > last.shieldedPlayer

\* C25: a projectile that overlaps an obstacle after its advance is removed in
\* that tick and deals no damage, also when it overlaps the opposing unit in the
\* same tick; no step moves or removes an obstacle.
C25_ObstacleShields == []ObstaclesFirst /\ [][blockers' = blockers]_vars

\* a projectile overlapped an obstacle and the enemy at once: it is gone and the
\* enemy's health is what it was
W25_ShieldedShot ==
    /\ last.op = "tick"
    /\ last.shieldedEnemy >= 1 /\ last.overEnemy = last.shieldedEnemy
    /\ enemy.health = last.pre.enemy.health
    /\ player_bullets = <<>>

\* the unit that the last move moved, before and after it, and the unit it met
DuelMover == IF last.who = "player" THEN player ELSE enemy
DuelMoverBefore == last.pre[last.who]
DuelOther == IF last.who = "player" THEN enemy ELSE player

\* the last move's displacement brought the mover's rect over the other unit's
DuelCollided ==
    /\ last.op = "duel"
    /\ CollideRect(TankRect(DisplaceAndClamp(DuelMoverBefore,
                       AxisDisplacement(last.dirx, last.diry, DuelMoverBefore.speed, last.dt),
                       AxisDisplacement(last.diry, last.dirx, DuelMoverBefore.speed, last.dt))),
                   TankRect(DuelOther))

\* C30: two units and no obstacles, their rects apart at the start: the rects do
\* not overlap after any move of either unit.
C30_TwoUnitsStayApart == ~CollideRect(TankRect(player), TankRect(enemy))

\* a move whose displacement overlapped the other unit, resolved to no overlap
W30_CollisionResolved ==
    /\ DuelCollided
    /\ ~CollideRect(TankRect(player), TankRect(enemy))

\* speed * dt in pixels, rounded up
CeilPixels(speed, dtMs) == (speed * dtMs + MsPerSecond - 1) \div MsPerSecond

\* C27: one move changes the centre of the unit's rect, on each axis, by no more
\* than speed * dt rounded up plus COLLISION_PUSH_DISTANCE.
C27_MoveWithinReach ==
    last.op = "duel" =>
        LET reach == CeilPixels(DuelMoverBefore.speed, last.dt) + COLLISION_PUSH_DISTANCE
        IN  /\ Abs(DuelMover.cx - DuelMoverBefore.cx) <= reach
            /\ Abs(DuelMover.cy - DuelMoverBefore.cy) <= reach

\* the facing that goes with a cardinal direction
CardinalOf(dirx, diry) ==
    IF dirx > 0 THEN "right" ELSE IF dirx < 0 THEN "left"
    ELSE IF diry > 0 THEN "down" ELSE "up"

\* C33: the controller's direction is always one of (1,0), (-1,0), (0,1), (0,-1),
\* (0,0), and after an update with a direction that is not zero the unit faces
\* the cardinal of that direction.
C33_CardinalIntent ==
    /\ <<ctl.dirx, ctl.diry>> \in {<<1, 0>>, <<-1, 0>>, <<0, 1>>, <<0, -1>>, <<0, 0>>}
    /\ (last.op = "think" /\ <<ctl.dirx, ctl.diry>> /= <<0, 0>>) =>
          enemy.ori = CardinalOf(ctl.dirx, ctl.diry)

\* an update that decided on a new direction by seeking, and turned the unit
W33_SoughtAndTurned ==
    /\ last.op = "think" /\ last.deciding /\ last.seek
    /\ <<ctl.dirx, ctl.diry>> \notin {<<0, 0>>, <<last.ctl.dirx, last.ctl.diry>>}
    /\ enemy.ori = CardinalOf(ctl.dirx, ctl.diry)
    /\ enemy.ori /= last.pre.ori

\* the update just made fired, and not through the random branch
DisciplinedShot == last.op = "think" /\ FiredNow /\ ~last.randFire

\* the projectile the update just made
NewShot == enemy_bullets[Len(enemy_bullets)]

\* C32 as stated: when the controller fires through the alignment rule the
\* opponent lies on the side the unit is facing.
C32_FiresTowardOpponent ==
    DisciplinedShot =>
        /\ enemy.ori = "right" => player.cx >= enemy.cx
        /\ enemy.ori = "left" => player.cx <= enemy.cx
        /\ enemy.ori = "down" => player.cy >= enemy.cy
        /\ enemy.ori = "up" => player.cy <= enemy.cy

\* C32, amended: when the controller fires through the alignment rule the shot
\* flies along the axis on which the unit is aligned with the opponent, within
\* 18 pixels across it; the rule does not look at the side the opponent is on.
C32_FiresAlongAlignedAxis ==
    DisciplinedShot =>
        /\ NewShot.dirx /= 0 =>
              (enemy.ori \in {"left", "right"} /\ Abs(enemy.cy - player.cy) <= 18)
        /\ NewShot.diry /= 0 =>
              (enemy.ori \in {"up", "down"} /\ Abs(enemy.cx - player.cx) <= 18)

\* a shot through the alignment rule, to the right, the opponent on the left
W32_FiresAway ==
    /\ DisciplinedShot
    /\ enemy.ori = "right" /\ NewShot.dirx = 1
    /\ Abs(enemy.cy - player.cy) <= 18
    /\ player.cx < enemy.cx

\* the projectile b is the projectile a after a flight of dt ms: along its one
\* cardinal axis, forward by speed * dt, the other coordinate as it was
FlownOn(a, b, dtMs) ==
    /\ b.dirx = a.dirx /\ b.diry = a.diry
    /\ (a.dirx = 0) /= (a.diry = 0)
    /\ b.px = FloatAdd(a.px, FloatMul(FloatOfInt(a.dirx * a.speed), Seconds(dtMs)))
    /\ b.py = FloatAdd(a.py, FloatMul(FloatOfInt(a.diry * a.speed), Seconds(dtMs)))
    /\ FloatCmp(b.px, a.px) = a.dirx
    /\ FloatCmp(b.py, a.py) = a.diry
    /\ b.updates = a.updates + 1

\* every projectile of now is a projectile of before, flown on
AllFlownOn(before, now, dtMs) ==
    \A i \in 1..Len(now) : \E j \in 1..Len(before) : FlownOn(before[j], now[i], dtMs)

\* a tick moved every projectile it left in its group
FlightGoesOn ==
    last.op = "tick" =>
        /\ AllFlownOn(last.pre.player_bullets, player_bullets, last.dt)
        /\ AllFlownOn(last.pre.enemy_bullets, enemy_bullets, last.dt)

\* no projectile is live
NoneLive == player_bullets = <<>> /\ enemy_bullets = <<>>

\* C31: while the round is played and every tick has a dt of 16 ms or more, every
\* projectile is removed in the end: each tick moves it forward along its one
\* cardinal axis, the other coordinate constant, so none stays live through
\* ticks without end.  The ticks end only when a turn clears `running`.
C31_ProjectilesLeave ==
    []FlightGoesOn /\ [](state = "playing") /\ <>(NoneLive \/ ~running)

\* the projectiles are gone after ticks in which one flew on, the round still
\* played: one struck a unit, no obstacle in its way
W31_AllGone ==
    /\ last.op = "tick" /\ state = "playing" /\ NoneLive
    /\ Len(last.pre.player_bullets) + Len(last.pre.enemy_bullets) >= 1
    /\ calls >= 2

====
